---- MODULE Spec2Model ----
(***************************************************************************)
(* A model of the baasix CLI: the type generator and the generate command *)
(* (src/src/commands/generate.ts), the migrate command                     *)
(* (src/src/commands/migrate.ts), the shared HTTP client                   *)
(* (src/src/utils/api-client.ts) and the configuration loader              *)
(* (src/src/utils/get-config.ts).                                          *)
(*                                                                         *)
(* JavaScript strings the code inspects character by character (collection *)
(* names, relation targets, scalar kinds) are sequences of one-character   *)
(* strings; strings the code only copies into its output (field names,     *)
(* enum values, display names) are plain strings.  An object is a record   *)
(* whose DOMAIN holds exactly the keys that are present, so an absent key  *)
(* (undefined) is a name outside the DOMAIN.  An output line is the        *)
(* sequence of the parts of the template literal that produces it; the     *)
(* text of the line is the concatenation of its parts.                     *)
(***************************************************************************)
EXTENDS Integers, Sequences, FiniteSets, TLC

VARIABLES
    schemas,    \* the SchemaInfo[] handed to the generator
    pc,         \* "start" before the generator ran, "done" after
    out,        \* the lines array of generateTypeScriptTypes, <<>> before
    field,      \* the FieldDefinition handed to fieldTypeToTS on its own
    fpc,        \* "start" before fieldTypeToTS ran on field, "done" after
    res,        \* the { type, jsdoc } fieldTypeToTS returned for field
    input,      \* the string handed to toPascalCase on its own
    spc,        \* "start" before toPascalCase ran on input, then "once", "twice"
    pascal,     \* what toPascalCase returned for input, then for that result
    runs,       \* the runs of the command on schemas: target and output of each
    clock,      \* how many of the instants of TimeOrder have passed
    env,        \* process.env, the keys the CLI reads
    dotenv,     \* the parsed .env file of the working directory, or NoEnvFile
    opts,       \* the options (and the action argument) of the command line
    files,      \* the files the command reads and writes
    server,     \* what the Baasix server holds: schemas, executed migrations
    config,     \* what getConfig returned, NotLoaded before
    client,     \* the module-level client of api-client.ts, Null before
    requests,   \* the HTTP requests sent so far, each with its response
    prompts,    \* the interactive prompts issued so far, each with its answer
    messages,   \* what the command logged and listed so far
    locals,     \* the local variables of the running handler
    cpc,        \* the position of the command in its handler
    exitCode    \* <<>> while the process runs, then <<code>>

genVars == <<schemas, pc, out>>
fieldVars == <<field, fpc, res>>
nameVars == <<input, spc, pascal>>
runVars == <<runs, clock>>
cmdVars == <<env, dotenv, opts, files, server, config, client, requests,
             prompts, messages, locals, cpc, exitCode>>
vars == <<schemas, pc, out, field, fpc, res, input, spc, pascal, runs, clock,
          env, dotenv, opts, files, server, config, client, requests,
          prompts, messages, locals, cpc, exitCode>>

\* null
Null == [null |-> TRUE]

\* {} (an object without keys)
EmptyObject == <<>>

\* No command of the CLI is running.
CommandIdle ==
    /\ env = EmptyObject
    /\ dotenv = Null
    /\ opts = EmptyObject
    /\ files = EmptyObject
    /\ server = EmptyObject
    /\ config = Null
    /\ client = Null
    /\ requests = <<>>
    /\ prompts = <<>>
    /\ messages = <<>>
    /\ locals = EmptyObject
    /\ cpc = "idle"
    /\ exitCode = <<>>

(***************************************************************************)
(* JavaScript strings and objects                                          *)
(***************************************************************************)
Has(o, k) == k \in DOMAIN o

Range(seq) == { seq[i] : i \in DOMAIN seq }

LowerChars == <<"a","b","c","d","e","f","g","h","i","j","k","l","m",
                "n","o","p","q","r","s","t","u","v","w","x","y","z">>

UpperChars == <<"A","B","C","D","E","F","G","H","I","J","K","L","M",
                "N","O","P","Q","R","S","T","U","V","W","X","Y","Z">>

\* The upper-case letter of each lower-case letter, and the converse.
UpperOf == [c \in Range(LowerChars) |->
              UpperChars[CHOOSE i \in DOMAIN LowerChars : LowerChars[i] = c]]

LowerOf == [c \in Range(UpperChars) |->
              LowerChars[CHOOSE i \in DOMAIN UpperChars : UpperChars[i] = c]]

ToUpperChar(c) == IF c \in DOMAIN UpperOf THEN UpperOf[c] ELSE c

ToLowerChar(c) == IF c \in DOMAIN LowerOf THEN LowerOf[c] ELSE c

toUpperCase(s) == [i \in DOMAIN s |-> ToUpperChar(s[i])]

toLowerCase(s) == [i \in DOMAIN s |-> ToLowerChar(s[i])]

\* The text of a character sequence.
RECURSIVE Str(_)
Str(s) == IF s = <<>> THEN "" ELSE Head(s) \o Str(Tail(s))

\* Array.prototype.join on an array of strings.
RECURSIVE Join(_, _)
Join(parts, sep) ==
    IF parts = <<>> THEN ""
    ELSE IF Len(parts) = 1 THEN parts[1]
    ELSE parts[1] \o sep \o Join(Tail(parts), sep)

\* String.prototype.startsWith.
startsWith(s, prefix) ==
    /\ Len(s) >= Len(prefix)
    /\ SubSeq(s, 1, Len(prefix)) = prefix

\* String.prototype.split on the character class [-_]: the words between
\* the separators, empty words included.
RECURSIVE SplitFrom(_, _, _)
SplitFrom(s, i, word) ==
    IF i > Len(s) THEN <<word>>
    ELSE IF s[i] \in {"-", "_"} THEN <<word>> \o SplitFrom(s, i + 1, <<>>)
    ELSE SplitFrom(s, i + 1, Append(word, s[i]))

\* split that finds no separator.
split_Whole(s) == <<s>>

split(s) == SplitFrom(s, 1, <<>>)

Digits == <<"0","1","2","3","4","5","6","7","8","9">>

\* The decimal text of an integer, as a template literal prints a number.
RECURSIVE NatToStr(_)
NatToStr(n) ==
    IF n < 10 THEN Digits[n + 1]
    ELSE NatToStr(n \div 10) \o Digits[(n % 10) + 1]

NumToStr(n) == IF n < 0 THEN "-" \o NatToStr(0 - n) ELSE NatToStr(n)

(***************************************************************************)
(* toPascalCase                                                            *)
(***************************************************************************)
\* PascalWord that keeps the rest of the word as it is spelled.
PascalWord_KeepRest(word) ==
    IF word = <<>> THEN <<>>
    ELSE <<ToUpperChar(word[1])>> \o Tail(word)

\* word.charAt(0).toUpperCase() + word.slice(1).toLowerCase()
PascalWord(word) ==
    IF word = <<>> THEN <<>>
    ELSE <<ToUpperChar(word[1])>> \o toLowerCase(Tail(word))

RECURSIVE ConcatAll(_)
ConcatAll(words) ==
    IF words = <<>> THEN <<>> ELSE Head(words) \o ConcatAll(Tail(words))

toPascalCase(str) ==
    LET words == split(str)
    IN  ConcatAll([i \in DOMAIN words |-> PascalWord(words[i])])

(***************************************************************************)
(* fieldTypeToTS                                                           *)
(***************************************************************************)
Opt(cond, x) == IF cond THEN <<x>> ELSE <<>>

\* JavaScript truthiness of an optional key: a boolean flag, a number, a
\* string (plain or character sequence).
TruthyFlag(o, k) == Has(o, k) /\ o[k] = TRUE

TruthyNum(o, k) == Has(o, k) /\ o[k] # 0

TruthyStr(o, k) == Has(o, k) /\ o[k] # ""

TruthyChars(o, k) == Has(o, k) /\ o[k] # <<>>

\* field.relType && field.target
IsRelation(f) == TruthyStr(f, "relType") /\ TruthyChars(f, "target")

\* field.allowNull !== false
Nullable(f) == ~(Has(f, "allowNull") /\ f.allowNull = FALSE)

\* The jsdocParts pushed from field.validate.
ValidateParts(f) ==
    IF ~Has(f, "validate") THEN <<>>
    ELSE LET v == f.validate
         IN  Opt(Has(v, "min"), "@min " \o NumToStr(v.min))
             \o Opt(Has(v, "max"), "@max " \o NumToStr(v.max))
             \o Opt(Has(v, "len"),
                    "@length " \o NumToStr(v.len[1]) \o "-" \o NumToStr(v.len[2]))
             \o Opt(TruthyFlag(v, "isEmail"), "@format email")
             \o Opt(TruthyFlag(v, "isUrl"), "@format url")
             \o Opt(TruthyFlag(v, "isIP"), "@format ip")
             \o Opt(TruthyFlag(v, "isUUID"), "@format uuid")
             \o Opt(TruthyStr(v, "regex"), "@pattern " \o v.regex)

\* The jsdocParts pushed from field.values when it is a non-array object.
ValuesParts(f) ==
    IF ~(Has(f, "values") /\ ~f.values.array) THEN <<>>
    ELSE LET vals == f.values
         IN  Opt(TruthyNum(vals, "length"), "@maxLength " \o NumToStr(vals.length))
             \o Opt(TruthyNum(vals, "precision") /\ TruthyNum(vals, "scale"),
                    "@precision " \o NumToStr(vals.precision)
                        \o "," \o NumToStr(vals.scale))

\* jsdocParts with the parts of field.values ahead of those of validate.
jsdocParts_ValuesFirst(f) == ValuesParts(f) \o ValidateParts(f)

jsdocParts(f) == ValidateParts(f) \o ValuesParts(f)

\* { type, jsdoc } with jsdoc undefined when no part was pushed.
WithJsdoc(t, parts) ==
    IF parts # <<>> THEN [type |-> t, jsdoc |-> Join(parts, " ")]
    ELSE [type |-> t]

\* case "ARRAY": the element type named by field.values.type.
ArrayInner(f) ==
    LET arrayType ==
            IF Has(f, "values") /\ ~f.values.array /\ TruthyChars(f.values, "type")
            THEN f.values.type
            ELSE <<"u","n","k","n","o","w","n">>
        upper == Str(toUpperCase(arrayType))
    IN  IF upper = "STRING" THEN "string"
        ELSE IF upper = "INTEGER" THEN "number"
        ELSE IF upper = "BOOLEAN" THEN "boolean"
        ELSE "unknown"

\* case "ENUM": field.values itself when it is an array, else
\* field.values.values; <<>> stands for an undefined enumValues.
EnumValues(f) ==
    IF ~Has(f, "values") THEN <<>>
    ELSE IF f.values.array THEN f.values.items
    ELSE IF Has(f.values, "values") THEN f.values.values
    ELSE <<>>

\* EnumType without the null suffix.
EnumType_NeverNull(f, nullSuffix) ==
    LET enumValues == EnumValues(f)
    IN  IF Len(enumValues) > 0
        THEN "(" \o Join([i \in DOMAIN enumValues |-> "\"" \o enumValues[i] \o "\""],
                         " | ") \o ")"
        ELSE "string" \o nullSuffix

EnumType(f, nullSuffix) ==
    LET enumValues == EnumValues(f)
    IN  IF Len(enumValues) > 0
        THEN "(" \o Join([i \in DOMAIN enumValues |-> "\"" \o enumValues[i] \o "\""],
                         " | ") \o ")" \o nullSuffix
        ELSE "string" \o nullSuffix

\* The switch over the upper-cased kind.
ScalarType(f, type, nullSuffix) ==
    IF type \in {"STRING", "TEXT", "UUID", "SUID"} THEN "string" \o nullSuffix
    ELSE IF type \in {"INTEGER", "BIGINT", "FLOAT", "REAL", "DOUBLE", "DECIMAL"}
        THEN "number" \o nullSuffix
    ELSE IF type = "BOOLEAN" THEN "boolean" \o nullSuffix
    ELSE IF type \in {"DATE", "DATETIME", "TIME"} THEN "string" \o nullSuffix
    ELSE IF type \in {"JSON", "JSONB"} THEN "Record<string, unknown>" \o nullSuffix
    ELSE IF type = "ARRAY" THEN ArrayInner(f) \o "[]" \o nullSuffix
    ELSE IF type = "ENUM" THEN EnumType(f, nullSuffix)
    ELSE IF type \in {"GEOMETRY", "POINT", "LINESTRING", "POLYGON"}
        THEN "GeoJSON.Geometry" \o nullSuffix
    ELSE "unknown" \o nullSuffix

\* RelationType with BelongsToMany rendered as a single target.
RelationType_HasManyOnly(f) ==
    LET targetType == Str(toPascalCase(f.target))
    IN  IF f.relType = "HasMany"
        THEN [type |-> targetType \o "[] | null"]
        ELSE [type |-> targetType \o " | null"]

\* RelationType with the null suffix taken from allowNull.
RelationType_ByAllowNull(f) ==
    LET targetType == Str(toPascalCase(f.target))
    IN  IF f.relType = "HasMany" \/ f.relType = "BelongsToMany"
        THEN [type |-> targetType \o "[]" \o (IF Nullable(f) THEN " | null" ELSE "")]
        ELSE [type |-> targetType \o (IF Nullable(f) THEN " | null" ELSE "")]

RelationType(f) ==
    LET targetType == Str(toPascalCase(f.target))
    IN  IF f.relType = "HasMany" \/ f.relType = "BelongsToMany"
        THEN [type |-> targetType \o "[] | null"]
        ELSE [type |-> targetType \o " | null"]

NullSuffix(f) == IF Nullable(f) THEN " | null" ELSE ""

\* fieldTypeToTS with the kind compared as it is spelled.
fieldTypeToTS_CaseSensitive(f, allSchemas) ==
    IF IsRelation(f) THEN RelationType(f)
    ELSE IF ~Has(f, "type")
        THEN WithJsdoc("unknown" \o NullSuffix(f), jsdocParts(f))
    ELSE WithJsdoc(ScalarType(f, Str(f.type), NullSuffix(f)), jsdocParts(f))

fieldTypeToTS(f, allSchemas) ==
    IF IsRelation(f) THEN RelationType(f)
    ELSE IF ~Has(f, "type")
        THEN WithJsdoc("unknown" \o NullSuffix(f), jsdocParts(f))
    ELSE WithJsdoc(ScalarType(f, Str(toUpperCase(f.type)), NullSuffix(f)),
                   jsdocParts(f))

(***************************************************************************)
(* generateTypeScriptTypes                                                 *)
(*                                                                         *)
(* schema.schema.fields is the sequence Object.entries yields for it: one  *)
(* [key, value] pair per own property, keys distinct.                      *)
(***************************************************************************)
BaasixPrefix == <<"b","a","a","s","i","x","_">>

\* The lines the lines array is initialised with; now is the text of
\* new Date().toISOString().
Preamble(now) ==
    << <<"/**">>,
       <<" * Auto-generated TypeScript types for Baasix collections">>,
       <<" * Generated at: ", now>>,
       <<" * ">>,
       <<" * Do not edit this file manually. Re-run 'baasix generate types' to update.">>,
       <<" */">>,
       <<"">>,
       <<"// GeoJSON types for PostGIS fields">>,
       <<"declare namespace GeoJSON {">>,
       <<"  interface Point { type: 'Point'; coordinates: [number, number]; }">>,
       <<"  interface LineString { type: 'LineString'; coordinates: [number, number][]; }">>,
       <<"  interface Polygon { type: 'Polygon'; coordinates: [number, number][][]; }">>,
       <<"  type Geometry = Point | LineString | Polygon;">>,
       <<"}">>,
       <<"">> >>

\* IsSystemReference that leaves out the target of a self-reference.
IsSystemReference_NotSelf(schema, fieldDef) ==
    /\ IsRelation(fieldDef)
    /\ startsWith(fieldDef.target, BaasixPrefix)
    /\ fieldDef.target # schema.collectionName

\* IsSystemReference that scans the fields of user collections only.
IsSystemReference_FromUserOnly(schema, fieldDef) ==
    /\ IsRelation(fieldDef)
    /\ startsWith(fieldDef.target, BaasixPrefix)
    /\ ~startsWith(schema.collectionName, BaasixPrefix)

\* The condition under which the first pass adds fieldDef.target to the set;
\* schema is the schema whose fields are being scanned.
IsSystemReference(schema, fieldDef) ==
    /\ IsRelation(fieldDef)
    /\ startsWith(fieldDef.target, BaasixPrefix)

\* The first pass: the targets collected over the fields of every schema.
referencedSystemCollections(ss) ==
    UNION { { e.value.target :
                e \in { d \in Range(ss[i].schema.fields) :
                          IsSystemReference(ss[i], d.value) } } :
            i \in DOMAIN ss }

\* schema.schema.name || schema.collectionName
DisplayName(schema) ==
    IF TruthyStr(schema.schema, "name") THEN schema.schema.name
    ELSE Str(schema.collectionName)

\* Optional without the primary-key test.
Optional_NullableOnly(fieldDef) == IF Nullable(fieldDef) THEN "?" ELSE ""

\* fieldDef.allowNull !== false && !fieldDef.primaryKey ? "?" : ""
Optional(fieldDef) ==
    IF Nullable(fieldDef) /\ ~TruthyFlag(fieldDef, "primaryKey") THEN "?" ELSE ""

\* The lines pushed for one entry of fields: the annotation when there is
\* one, then the member.
FieldLines(fieldName, fieldDef, ss) ==
    LET r == fieldTypeToTS(fieldDef, ss)
    IN  Opt(Has(r, "jsdoc"), <<"  /** ", r.jsdoc, " */">>)
        \o << <<"  ", fieldName, Optional(fieldDef), ": ", r.type, ";">> >>

\* The system loop without the skip.
SystemSkips_Never(fieldDef) == FALSE

\* The system loop skips every field whose relType is set.
SystemSkips(fieldDef) == TruthyStr(fieldDef, "relType")

SystemFieldLines(e, ss) ==
    IF SystemSkips(e.value) THEN <<>> ELSE FieldLines(e.key, e.value, ss)

SystemBlock(schema, ss) ==
    LET fields == schema.schema.fields
    IN  << <<"/**">>,
           <<" * ", DisplayName(schema), " (system collection)">>,
           <<" */">>,
           <<"export interface ", Str(toPascalCase(schema.collectionName)), " {">> >>
        \o ConcatAll([j \in DOMAIN fields |-> SystemFieldLines(fields[j], ss)])
        \o << <<"}">>, <<"">> >>

TimestampLines(schema) ==
    IF TruthyFlag(schema.schema, "timestamps")
    THEN << <<"  createdAt?: string;">>, <<"  updatedAt?: string;">> >>
    ELSE <<>>

ParanoidLines(schema) ==
    IF TruthyFlag(schema.schema, "paranoid")
    THEN << <<"  deletedAt?: string | null;">> >>
    ELSE <<>>

\* UserBlock with the soft-delete member ahead of the timestamp members.
UserBlock_SoftDeleteFirst(schema, ss) ==
    LET fields == schema.schema.fields
    IN  << <<"/**">>,
           <<" * ", DisplayName(schema), " collection">>,
           <<" */">>,
           <<"export interface ", Str(toPascalCase(schema.collectionName)), " {">> >>
        \o ConcatAll([j \in DOMAIN fields |->
                        FieldLines(fields[j].key, fields[j].value, ss)])
        \o ParanoidLines(schema)
        \o TimestampLines(schema)
        \o << <<"}">>, <<"">> >>

UserBlock(schema, ss) ==
    LET fields == schema.schema.fields
    IN  << <<"/**">>,
           <<" * ", DisplayName(schema), " collection">>,
           <<" */">>,
           <<"export interface ", Str(toPascalCase(schema.collectionName)), " {">> >>
        \o ConcatAll([j \in DOMAIN fields |->
                        FieldLines(fields[j].key, fields[j].value, ss)])
        \o TimestampLines(schema)
        \o ParanoidLines(schema)
        \o << <<"}">>, <<"">> >>

\* schemas.filter((s) => referencedSystemCollections.has(s.collectionName))
systemSchemas(ss) ==
    LET referenced == referencedSystemCollections(ss)
        Test(s) == s.collectionName \in referenced
    IN  SelectSeq(ss, Test)

\* userSchemas that keeps, of the collections with one type name, the last.
userSchemas_LastPerTypeName(ss) ==
    LET IsUser(i) == ~startsWith(ss[i].collectionName, BaasixPrefix)
        Kept == { i \in DOMAIN ss :
                    /\ IsUser(i)
                    /\ \A j \in DOMAIN ss :
                          (j > i /\ IsUser(j))
                          => toPascalCase(ss[j].collectionName)
                                # toPascalCase(ss[i].collectionName) }
        Test(s) == \E i \in Kept : ss[i] = s
    IN  SelectSeq(ss, Test)

\* userSchemas without the filter.
userSchemas_Unfiltered(ss) == ss

\* schemas.filter((s) => !s.collectionName.startsWith("baasix_"))
userSchemas(ss) ==
    LET Test(s) == ~startsWith(s.collectionName, BaasixPrefix)
    IN  SelectSeq(ss, Test)

\* CollectionNameLines over every schema of the input.
CollectionNameLines_AllSchemas(ss) ==
    << <<"/**">>, <<" * All collection names">>, <<" */">>,
       <<"export type CollectionName =">> >>
    \o [i \in DOMAIN ss |-> <<"  | \"", Str(ss[i].collectionName), "\"">>]
    \o << <<";">>, <<"">> >>

CollectionNameLines(ss) ==
    LET users == userSchemas(ss)
    IN  << <<"/**">>, <<" * All collection names">>, <<" */">>,
           <<"export type CollectionName =">> >>
        \o [i \in DOMAIN users |-> <<"  | \"", Str(users[i].collectionName), "\"">>]
        \o << <<";">>, <<"">> >>

CollectionTypeMapLines(ss) ==
    LET users == userSchemas(ss)
    IN  << <<"/**">>, <<" * Map collection names to their types">>, <<" */">>,
           <<"export interface CollectionTypeMap {">> >>
        \o [i \in DOMAIN users |->
              <<"  ", Str(users[i].collectionName), ": ",
                Str(toPascalCase(users[i].collectionName)), ";">>]
        \o << <<"}">>, <<"">> >>

\* generateTypeScriptTypes that returns no line when a field of the input
\* is neither a relation with a target nor a scalar with a kind, or names a
\* relType without a target.
generateTypeScriptTypes_Strict(ss, now) ==
    LET sys == systemSchemas(ss)
        users == userSchemas(ss)
        Rejected(f) == ~IsRelation(f) /\ (~Has(f, "type") \/ Has(f, "relType"))
    IN  IF \E i \in DOMAIN ss : \E e \in Range(ss[i].schema.fields) : Rejected(e.value)
        THEN <<>>
        ELSE Preamble(now)
             \o ConcatAll([i \in DOMAIN sys |-> SystemBlock(sys[i], ss)])
             \o ConcatAll([i \in DOMAIN users |-> UserBlock(users[i], ss)])
             \o CollectionNameLines(ss)
             \o CollectionTypeMapLines(ss)

\* The lines array at the return statement (the text returned is its lines
\* joined by line breaks).
generateTypeScriptTypes(ss, now) ==
    LET sys == systemSchemas(ss)
        users == userSchemas(ss)
    IN  Preamble(now)
        \o ConcatAll([i \in DOMAIN sys |-> SystemBlock(sys[i], ss)])
        \o ConcatAll([i \in DOMAIN users |-> UserBlock(users[i], ss)])
        \o CollectionNameLines(ss)
        \o CollectionTypeMapLines(ss)

(***************************************************************************)
(* generateSDKTypes                                                        *)
(***************************************************************************)
\* The lines the lines array of generateSDKTypes is initialised with.
SDKPreamble(now) ==
    << <<"/**">>,
       <<" * Auto-generated typed SDK helpers for Baasix collections">>,
       <<" * Generated at: ", now>>,
       <<" * ">>,
       <<" * Do not edit this file manually. Re-run 'baasix generate sdk-types' to update.">>,
       <<" */">>,
       <<"">>,
       <<"import { createBaasix } from \"@tspvivek/baasix-sdk\";">>,
       <<"import type { QueryParams, Filter, PaginatedResponse } from \"@tspvivek/baasix-sdk\";">>,
       <<"">> >>

FactoryOpening ==
    << <<"/**">>,
       <<" * Create a typed Baasix client with collection-specific methods">>,
       <<" */">>,
       <<"export function createTypedBaasix(config: Parameters<typeof createBaasix>[0]) {">>,
       <<"  const client = createBaasix(config);">>,
       <<"">>,
       <<"  return {">>,
       <<"    ...client,">>,
       <<"    /**">>,
       <<"     * Type-safe items access">>,
       <<"     */">>,
       <<"    collections: {">> >>

FactoryClosing == << <<"    },">>, <<"  };">>, <<"}">>, <<"">> >>

\* AccessorLines over every schema of the input.
AccessorLines_AllSchemas(ss) ==
    [i \in DOMAIN ss |->
        <<"      ", Str(ss[i].collectionName), ": client.items<",
          Str(toPascalCase(ss[i].collectionName)), ">(\"",
          Str(ss[i].collectionName), "\"),">>]

\* One accessor per element of userSchemas.
AccessorLines(ss) ==
    LET users == userSchemas(ss)
    IN  [i \in DOMAIN users |->
            <<"      ", Str(users[i].collectionName), ": client.items<",
              Str(toPascalCase(users[i].collectionName)), ">(\"",
              Str(users[i].collectionName), "\"),">>]

\* generateSDKTypes that stamps the line closing the accessors.
generateSDKTypes_Stamped(ss, now, typesNow) ==
    SDKPreamble(now)
    \o generateTypeScriptTypes(ss, typesNow)
    \o FactoryOpening
    \o AccessorLines(ss)
    \o << <<"    }, // ", now>> >>
    \o Tail(FactoryClosing)

\* The lines of the text generateSDKTypes returns: the text of the types,
\* pushed as one element, is its lines joined by line breaks.  now and
\* typesNow are the texts of the two new Date().toISOString().
generateSDKTypes(ss, now, typesNow) ==
    SDKPreamble(now)
    \o generateTypeScriptTypes(ss, typesNow)
    \o FactoryOpening
    \o AccessorLines(ss)
    \o FactoryClosing

(***************************************************************************)
(* Inputs                                                                  *)
(***************************************************************************)
MaxFields == 2

MaxSchemas == 3

orders == <<"o","r","d","e","r","s">>

line_items == <<"l","i","n","e","_","i","t","e","m","s">>

line_dash_items == <<"l","i","n","e","-","i","t","e","m","s">>

baasix_User == <<"b","a","a","s","i","x","_","U","s","e","r">>

baasix_Role == <<"b","a","a","s","i","x","_","R","o","l","e">>

KindUuid == <<"U","U","I","D">>

KindString == <<"S","t","r","i","n","g">>

KindDecimal == <<"D","e","c","i","m","a","l">>

KindEnum == <<"E","N","U","M">>

Entry(k, v) == [key |-> k, value |-> v]

NoMeta == [x \in {} |-> TRUE]

\* Entries of fields: scalars of every nullability and primary-key
\* combination, an annotated scalar, an enumeration, relations of the four
\* kinds to user and system targets, a relType without a target, a scalar
\* with every constraint, a scalar whose constraints are all falsy values,
\* and a descriptor without any key.
FieldPool ==
    { Entry("id", [type |-> KindUuid, primaryKey |-> TRUE]),
      Entry("code", [type |-> KindString, primaryKey |-> TRUE, allowNull |-> FALSE]),
      Entry("title", [type |-> KindString, primaryKey |-> FALSE, allowNull |-> TRUE]),
      Entry("total", [type |-> KindDecimal, allowNull |-> FALSE,
                      values |-> [array |-> FALSE, precision |-> 10, scale |-> 2],
                      validate |-> [min |-> 0]]),
      Entry("status", [type |-> KindEnum, allowNull |-> TRUE,
                       values |-> [array |-> FALSE,
                                   values |-> <<"draft", "published">>]]),
      Entry("items", [relType |-> "HasMany", target |-> line_items]),
      Entry("parts", [relType |-> "HasMany", target |-> line_items,
                      allowNull |-> FALSE]),
      Entry("tags", [relType |-> "BelongsToMany", target |-> line_items,
                     allowNull |-> TRUE, primaryKey |-> TRUE]),
      Entry("owner", [relType |-> "BelongsTo", target |-> baasix_User]),
      Entry("editor", [relType |-> "HasOne", target |-> baasix_User,
                       allowNull |-> FALSE]),
      Entry("role", [relType |-> "BelongsTo", target |-> baasix_Role]),
      Entry("broken", [relType |-> "BelongsTo", type |-> KindString]),
      Entry("contact", [type |-> KindString,
                        validate |-> [min |-> 1, max |-> 9, len |-> <<3, 50>>,
                                      isEmail |-> TRUE, isUrl |-> TRUE,
                                      isIP |-> TRUE, isUUID |-> TRUE,
                                      regex |-> "^x$"],
                        values |-> [array |-> FALSE, length |-> 255,
                                    precision |-> 10, scale |-> 2]]),
      Entry("note", [type |-> KindString,
                     validate |-> [isEmail |-> FALSE, regex |-> ""],
                     values |-> [array |-> FALSE, length |-> 0,
                                 precision |-> 10, scale |-> 0]]),
      Entry("blank", NoMeta) }

\* The sequences of at most n entries of pool with distinct keys.
RECURSIVE EntrySeqs(_, _)
EntrySeqs(pool, n) ==
    IF n = 0 THEN { <<>> }
    ELSE LET shorter == EntrySeqs(pool, n - 1)
         IN  shorter \cup
             { Append(fs, e) : <<fs, e>> \in
                 { p \in shorter \X pool :
                     \A i \in DOMAIN p[1] : p[1][i].key # p[2].key } }

\* schema.schema without its fields: name, timestamps and paranoid, each
\* present or absent.
Metas ==
    { NoMeta,
      [name |-> "Sales orders"],
      [timestamps |-> TRUE],
      [paranoid |-> TRUE],
      [name |-> "Sales orders", timestamps |-> TRUE],
      [name |-> "", paranoid |-> TRUE, timestamps |-> FALSE],
      [timestamps |-> TRUE, paranoid |-> TRUE],
      [name |-> "Sales orders", timestamps |-> TRUE, paranoid |-> TRUE] }

\* { ...meta, fields }
WithFields(meta, fields) ==
    [k \in DOMAIN meta \cup {"fields"} |->
        IF k = "fields" THEN fields ELSE meta[k]]

SchemaInfo(collectionName, meta, fields) ==
    [collectionName |-> collectionName, schema |-> WithFields(meta, fields)]

\* One collection with every field list: a user collection with every
\* meta, and a system collection without flags (the system loop reads none).
RichInputs ==
    { << SchemaInfo(orders, mt, fs) >> :
        <<mt, fs>> \in Metas \X EntrySeqs(FieldPool, MaxFields) }
    \cup { << SchemaInfo(baasix_User, mt, fs) >> :
             <<mt, fs>> \in {NoMeta, [name |-> "Users"]}
                            \X EntrySeqs(FieldPool, MaxFields) }

IdEntry == Entry("id", [type |-> KindUuid, primaryKey |-> TRUE, allowNull |-> FALSE])

RefEntry(t) == Entry("ref", [relType |-> "BelongsTo", target |-> t])

\* User collections that hold no reference, one reference to a user or a
\* system collection, or two references to the same system collection; two
\* of the names give the same type name.
GraphUserSchemas ==
    { SchemaInfo(orders, NoMeta, fs) :
        fs \in { <<IdEntry>>,
                 <<IdEntry, RefEntry(line_items)>>,
                 <<IdEntry, RefEntry(baasix_User)>>,
                 << Entry("owner", [relType |-> "BelongsTo", target |-> baasix_User]),
                    Entry("editor", [relType |-> "HasOne", target |-> baasix_User]) >> } }
    \cup { SchemaInfo(line_items, NoMeta, fs) :
             fs \in { <<IdEntry>>, <<IdEntry, RefEntry(baasix_User)>> } }
    \cup { SchemaInfo(line_dash_items, NoMeta, <<Entry("sku", [type |-> KindString])>>) }

\* System collections that hold no reference, a reference to themselves or
\* a reference to another system collection.
GraphSystemSchemas ==
    { SchemaInfo(baasix_User, NoMeta, fs) :
        fs \in { <<IdEntry>>,
                 <<IdEntry, RefEntry(baasix_User)>>,
                 <<IdEntry, RefEntry(baasix_Role)>> } }
    \cup { SchemaInfo(baasix_Role, NoMeta, <<IdEntry>>) }

GraphSchemas == GraphUserSchemas \cup GraphSystemSchemas

\* The sequences of at most n elements of S.
RECURSIVE SeqsUpTo(_, _)
SeqsUpTo(S, n) ==
    IF n = 0 THEN { <<>> }
    ELSE LET shorter == SeqsUpTo(S, n - 1)
         IN  shorter \cup { Append(q, x) : <<q, x>> \in shorter \X S }

\* Up to MaxSchemas collections that reference one another.
GraphInputs == SeqsUpTo(GraphSchemas, MaxSchemas)

\* generateAction leaves before the generator when schemas.length === 0.
Inputs == (RichInputs \cup GraphInputs) \ { <<>> }

\* The values new Date().toISOString() takes, in the order of time.
TimeOrder == <<"2026-01-01T00:00:00.000Z", "2026-01-02T00:00:00.000Z">>

Times == Range(TimeOrder)

NoField == [type |-> <<>>]

NoResult == [type |-> ""]

(***************************************************************************)
(* The generator run                                                       *)
(***************************************************************************)
Init ==
    /\ schemas \in Inputs
    /\ pc = "start"
    /\ out = <<>>
    /\ field = NoField
    /\ fpc = "idle"
    /\ res = NoResult
    /\ input = <<>>
    /\ spc = "idle"
    /\ pascal = <<>>
    /\ runs = <<>>
    /\ clock = 0
    /\ CommandIdle

\* output = generateTypeScriptTypes(schemas)
GenerateTypes ==
    /\ pc = "start"
    /\ \E now \in Times : out' = generateTypeScriptTypes(schemas, now)
    /\ pc' = "done"
    /\ UNCHANGED <<schemas, fieldVars, nameVars, runVars, cmdVars>>

Next == GenerateTypes

Spec == Init /\ [][Next]_vars

(***************************************************************************)
(* fieldTypeToTS on one field                                              *)
(***************************************************************************)
\* The kinds the switch maps to a fixed type, spelled in upper case, in
\* lower case and capitalised, and the type of each.
UpperKinds ==
    << <<"S","T","R","I","N","G">>,
       <<"T","E","X","T">>,
       <<"U","U","I","D">>,
       <<"S","U","I","D">>,
       <<"I","N","T","E","G","E","R">>,
       <<"B","I","G","I","N","T">>,
       <<"F","L","O","A","T">>,
       <<"R","E","A","L">>,
       <<"D","O","U","B","L","E">>,
       <<"D","E","C","I","M","A","L">>,
       <<"B","O","O","L","E","A","N">>,
       <<"D","A","T","E">>,
       <<"D","A","T","E","T","I","M","E">>,
       <<"T","I","M","E">>,
       <<"J","S","O","N">>,
       <<"J","S","O","N","B">>,
       <<"G","E","O","M","E","T","R","Y">>,
       <<"P","O","I","N","T">>,
       <<"L","I","N","E","S","T","R","I","N","G">>,
       <<"P","O","L","Y","G","O","N">> >>

LowerKinds ==
    << <<"s","t","r","i","n","g">>,
       <<"t","e","x","t">>,
       <<"u","u","i","d">>,
       <<"s","u","i","d">>,
       <<"i","n","t","e","g","e","r">>,
       <<"b","i","g","i","n","t">>,
       <<"f","l","o","a","t">>,
       <<"r","e","a","l">>,
       <<"d","o","u","b","l","e">>,
       <<"d","e","c","i","m","a","l">>,
       <<"b","o","o","l","e","a","n">>,
       <<"d","a","t","e">>,
       <<"d","a","t","e","t","i","m","e">>,
       <<"t","i","m","e">>,
       <<"j","s","o","n">>,
       <<"j","s","o","n","b">>,
       <<"g","e","o","m","e","t","r","y">>,
       <<"p","o","i","n","t">>,
       <<"l","i","n","e","s","t","r","i","n","g">>,
       <<"p","o","l","y","g","o","n">> >>

CapitalKinds ==
    << <<"S","t","r","i","n","g">>,
       <<"T","e","x","t">>,
       <<"U","u","i","d">>,
       <<"S","u","i","d">>,
       <<"I","n","t","e","g","e","r">>,
       <<"B","i","g","i","n","t">>,
       <<"F","l","o","a","t">>,
       <<"R","e","a","l">>,
       <<"D","o","u","b","l","e">>,
       <<"D","e","c","i","m","a","l">>,
       <<"B","o","o","l","e","a","n">>,
       <<"D","a","t","e">>,
       <<"D","a","t","e","t","i","m","e">>,
       <<"T","i","m","e">>,
       <<"J","s","o","n">>,
       <<"J","s","o","n","b">>,
       <<"G","e","o","m","e","t","r","y">>,
       <<"P","o","i","n","t">>,
       <<"L","i","n","e","s","t","r","i","n","g">>,
       <<"P","o","l","y","g","o","n">> >>

KindTypes ==
    << "string",
       "string",
       "string",
       "string",
       "number",
       "number",
       "number",
       "number",
       "number",
       "number",
       "boolean",
       "string",
       "string",
       "string",
       "Record<string, unknown>",
       "Record<string, unknown>",
       "GeoJSON.Geometry",
       "GeoJSON.Geometry",
       "GeoJSON.Geometry",
       "GeoJSON.Geometry" >>

ArrayKinds == {<<"A","R","R","A","Y">>, <<"a","r","r","a","y">>, <<"A","r","r","a","y">>}

EnumKinds == {<<"E","N","U","M">>, <<"e","n","u","m">>, <<"E","n","u","m">>}

\* Kind strings outside the switch.
OtherKinds ==
    {<<"V","I","R","T","U","A","L">>,
     <<"R","a","n","g","e">>,
     <<"s","t","r">>,
     <<"S","T","R","I","N","G","S">>,
     <<>>}

InnerString == {<<"S","T","R","I","N","G">>, <<"s","t","r","i","n","g">>, <<"S","t","r","i","n","g">>}

InnerInteger == {<<"I","N","T","E","G","E","R">>, <<"i","n","t","e","g","e","r">>, <<"I","n","t","e","g","e","r">>}

InnerBoolean == {<<"B","O","O","L","E","A","N">>, <<"b","o","o","l","e","a","n">>, <<"B","o","o","l","e","a","n">>}

InnerOther == {<<"D","a","t","e">>, <<"F","L","O","A","T">>}

FieldKinds ==
    Range(UpperKinds) \cup Range(LowerKinds) \cup Range(CapitalKinds)
        \cup ArrayKinds \cup EnumKinds \cup OtherKinds

\* field.values: absent, an array of enumeration values, or an object with
\* an element type, enumeration values, a length or a precision and scale.
FieldValues ==
    { [array |-> TRUE, items |-> <<"draft", "published">>],
      [array |-> TRUE, items |-> <<>>],
      [array |-> FALSE, values |-> <<"draft", "published">>],
      [array |-> FALSE, values |-> <<"b", "a", "c">>],
      [array |-> FALSE, values |-> <<>>],
      [array |-> FALSE],
      [array |-> FALSE, length |-> 255],
      [array |-> FALSE, length |-> 0],
      [array |-> FALSE, precision |-> 10, scale |-> 2],
      [array |-> FALSE, precision |-> 10, scale |-> 0] }
    \cup { [array |-> FALSE, type |-> t] :
             t \in InnerString \cup InnerInteger \cup InnerBoolean \cup InnerOther }

\* field.validate: absent, or an object with some of the constraints.
FieldValidates ==
    { [min |-> 0],
      [min |-> 1, max |-> 5],
      [max |-> 0 - 1],
      [len |-> <<3, 50>>],
      [isEmail |-> TRUE],
      [isEmail |-> FALSE, isUrl |-> TRUE, isIP |-> TRUE, isUUID |-> TRUE],
      [regex |-> "^[a-z]+$"],
      [min |-> 0, max |-> 120, len |-> <<0, 9>>, isEmail |-> TRUE,
       isUrl |-> TRUE, isIP |-> TRUE, isUUID |-> TRUE, regex |-> "^x$"] }

\* The record r with the key k added, holding v.
With(r, k, v) == [x \in DOMAIN r \cup {k} |-> IF x = k THEN v ELSE r[x]]

\* Every extension of the records of S by the key k with a value of Vs, and
\* the records of S themselves (k absent).
Optionally(S, k, Vs) == S \cup { With(r, k, v) : <<r, v>> \in S \X Vs }

\* Scalar descriptors: kind present or absent, allowNull true, false or
\* absent, with and without values and validate.
ScalarFields ==
    Optionally(
        Optionally(
            Optionally(
                Optionally({NoMeta}, "type", FieldKinds),
                "allowNull", BOOLEAN),
            "values", FieldValues),
        "validate", FieldValidates)

\* Descriptors with relType or target: relations of every kind, and the
\* incomplete ones (one of the two absent or empty) that fieldTypeToTS treats
\* as scalars.
RelationFields ==
    Optionally(
        Optionally(
            Optionally(
                Optionally(
                    Optionally({NoMeta}, "relType",
                               {"HasMany", "BelongsToMany", "BelongsTo", "HasOne", ""}),
                    "target", {line_items, orders, baasix_User, <<>>}),
                "type", {KindString, KindUuid}),
            "allowNull", BOOLEAN),
        "primaryKey", BOOLEAN)

FieldInputs == ScalarFields \cup RelationFields

InitField ==
    /\ field \in FieldInputs
    /\ fpc = "start"
    /\ res = NoResult
    /\ schemas = <<>>
    /\ pc = "idle"
    /\ out = <<>>
    /\ input = <<>>
    /\ spc = "idle"
    /\ pascal = <<>>
    /\ runs = <<>>
    /\ clock = 0
    /\ CommandIdle

\* const { type, jsdoc } = fieldTypeToTS(fieldDef, schemas)
ApplyFieldTypeToTS ==
    /\ fpc = "start"
    /\ res' = fieldTypeToTS(field, schemas)
    /\ fpc' = "done"
    /\ UNCHANGED <<field, genVars, nameVars, runVars, cmdVars>>

NextField == ApplyFieldTypeToTS

SpecField == InitField /\ [][NextField]_vars

(***************************************************************************)
(* toPascalCase on one string                                              *)
(***************************************************************************)
MaxNameLen == 4

\* A lower-case letter, an upper-case letter, the two separators, a digit.
NameChars == {"a", "B", "-", "_", "1"}

order_items == <<"o","r","d","e","r","_","i","t","e","m","s">>

order_dash_items == <<"o","r","d","e","r","-","i","t","e","m","s">>

OrderItems == <<"O","r","d","e","r","I","t","e","m","s">>

\* Every string of at most MaxNameLen characters of NameChars, and the
\* collection names of the other inputs.
Names ==
    SeqsUpTo(NameChars, MaxNameLen)
        \cup {order_items, order_dash_items, OrderItems,
              orders, line_items, baasix_User, baasix_Role}

InitName ==
    /\ input \in Names
    /\ spc = "start"
    /\ pascal = <<>>
    /\ schemas = <<>>
    /\ pc = "idle"
    /\ out = <<>>
    /\ field = NoField
    /\ fpc = "idle"
    /\ res = NoResult
    /\ runs = <<>>
    /\ clock = 0
    /\ CommandIdle

\* const typeName = toPascalCase(input)
ApplyToPascalCase ==
    /\ spc = "start"
    /\ pascal' = <<toPascalCase(input)>>
    /\ spc' = "once"
    /\ UNCHANGED <<input, genVars, fieldVars, runVars, cmdVars>>

\* toPascalCase(typeName)
ReapplyToPascalCase ==
    /\ spc = "once"
    /\ pascal' = Append(pascal, toPascalCase(pascal[1]))
    /\ spc' = "twice"
    /\ UNCHANGED <<input, genVars, fieldVars, runVars, cmdVars>>

NextName == ApplyToPascalCase \/ ReapplyToPascalCase

SpecName == InitName /\ [][NextName]_vars

(***************************************************************************)
(* Runs of the command on one input                                        *)
(*                                                                         *)
(* Each run of generateAction with the target "types" or "sdk-types"       *)
(* calls its generator on the schemas and reads the clock once for each    *)
(* preamble; the clock never goes back, and between two runs it advances.  *)
(***************************************************************************)
\* The collections that reference one another, and one collection with
\* every meta and each single field.
RunInputs ==
    (GraphInputs \ { <<>> })
        \cup { << SchemaInfo(orders, mt, <<e>>) >> : <<mt, e>> \in Metas \X FieldPool }

InitRuns ==
    /\ schemas \in RunInputs
    /\ runs = <<>>
    /\ clock = 0
    /\ pc = "idle"
    /\ out = <<>>
    /\ field = NoField
    /\ fpc = "idle"
    /\ res = NoResult
    /\ input = <<>>
    /\ spc = "idle"
    /\ pascal = <<>>
    /\ CommandIdle

\* target === "types": output = generateTypeScriptTypes(schemas)
RunTypes ==
    /\ \E k \in (clock + 1)..Len(TimeOrder) :
          /\ runs' = Append(runs,
                  [target |-> "types",
                   output |-> generateTypeScriptTypes(schemas, TimeOrder[k])])
          /\ clock' = k
    /\ UNCHANGED <<genVars, fieldVars, nameVars, cmdVars>>

\* target === "sdk-types": output = generateSDKTypes(schemas)
RunSDKTypes ==
    /\ \E k \in (clock + 1)..Len(TimeOrder) :
          \E l \in k..Len(TimeOrder) :
              /\ runs' = Append(runs,
                      [target |-> "sdk-types",
                       output |-> generateSDKTypes(schemas, TimeOrder[k], TimeOrder[l])])
              /\ clock' = l
    /\ UNCHANGED <<genVars, fieldVars, nameVars, cmdVars>>

NextRuns == RunTypes \/ RunSDKTypes

SpecRuns == InitRuns /\ [][NextRuns]_vars

(***************************************************************************)
(* Reading the output                                                      *)
(***************************************************************************)
\* export interface <TypeName> {
IsInterfaceHeader(line) ==
    Len(line) = 3 /\ line[1] = "export interface " /\ line[3] = " {"

\* <two spaces><name><"?" or ""): <type>;
IsMember(line) ==
    Len(line) = 6 /\ line[1] = "  " /\ line[4] = ": " /\ line[6] = ";"

\* /** <annotation> */
IsAnnotation(line) ==
    Len(line) = 3 /\ line[1] = "  /** " /\ line[3] = " */"

\* The positions of the type declarations of o.
Decls(o) == { i \in DOMAIN o : IsInterfaceHeader(o[i]) }

\* The position of the first closing line at or after j.
RECURSIVE CloseFrom(_, _)
CloseFrom(o, j) == IF o[j] = <<"}">> THEN j ELSE CloseFrom(o, j + 1)

\* The position of the line that closes the declaration opened at i.
DeclClose(o, i) == CloseFrom(o, i + 1)

DeclTypeName(o, i) == o[i][2]

DeclIsSystem(o, i) == o[i - 2][3] = " (system collection)"

DeclsNamed(o, typeName) == { i \in Decls(o) : DeclTypeName(o, i) = typeName }

DeclBody(o, i) == SubSeq(o, i + 1, DeclClose(o, i) - 1)

DeclMembers(o, i) == SelectSeq(DeclBody(o, i), IsMember)

IsSystemName(n) == startsWith(n, BaasixPrefix)

TypeNameFor(n) == Str(toPascalCase(n))

\* The input schemas the declaration at i can have been emitted for.
DeclSources(o, i) ==
    { s \in Range(schemas) :
        /\ TypeNameFor(s.collectionName) = DeclTypeName(o, i)
        /\ IsSystemName(s.collectionName) <=> DeclIsSystem(o, i) }

\* A relation field has both relType and target; a scalar field is any other.
IsRelationField(f) ==
    /\ "relType" \in DOMAIN f /\ f.relType # ""
    /\ "target" \in DOMAIN f /\ f.target # <<>>

AllowNullNotFalse(f) == ("allowNull" \notin DOMAIN f) \/ f.allowNull

IsPrimaryKey(f) == ("primaryKey" \in DOMAIN f) /\ f.primaryKey

IsToMany(f) == f.relType \in {"HasMany", "BelongsToMany"}

IsToOne(f) == f.relType \in {"BelongsTo", "HasOne"}

\* Every member of the declaration at i comes from an entry of the fields of
\* one source schema, and P holds of each member and the entry it comes from.
MembersSatisfy(o, i, P(_, _)) ==
    LET members == DeclMembers(o, i)
    IN  \E s \in DeclSources(o, i) :
            \A k \in DOMAIN members :
                \E e \in Range(s.schema.fields) :
                    /\ e.key = members[k][2]
                    /\ P(members[k], e.value)

(***************************************************************************)
(* C1: in every emitted type declaration, user or system, the member of a  *)
(* scalar field carries the optional marker exactly when the field's       *)
(* allowNull is not false and the field is not the primary key.            *)
(***************************************************************************)
C1_Rule(member, f) ==
    ~IsRelationField(f) =>
        (member[3] = "?" <=> (AllowNullNotFalse(f) /\ ~IsPrimaryKey(f)))

C1_ScalarOptionalIffNullableAndNotPk ==
    pc = "done" => \A i \in Decls(out) : MembersSatisfy(out, i, C1_Rule)

\* A nullable primary key rendered required before a nullable scalar
\* rendered optional, in one declaration.
C1_Witness ==
    /\ pc = "done"
    /\ \E i \in Decls(out) :
        /\ Len(DeclBody(out, i)) = 2
        /\ DeclBody(out, i)[1] = <<"  ", "id", "", ": ", "string | null", ";">>
        /\ DeclBody(out, i)[2] = <<"  ", "title", "?", ": ", "string | null", ";">>

(***************************************************************************)
(* C2 as stated: a HasMany or BelongsToMany field of a user collection     *)
(* that targets "line_items" is rendered as an optional member of type     *)
(* LineItems[] | null whatever its own allowNull and primaryKey.           *)
(***************************************************************************)
IsToManyLineItems(f) ==
    IsRelationField(f) /\ IsToMany(f) /\ f.target = line_items

C2_OriginalRule(member, f) ==
    IsToManyLineItems(f) =>
        (member[3] = "?" /\ member[5] = "LineItems[] | null")

C2_Original_ToManyAlwaysOptional ==
    pc = "done" =>
        \A i \in Decls(out) :
            ~DeclIsSystem(out, i) => MembersSatisfy(out, i, C2_OriginalRule)

(***************************************************************************)
(* C2 amended: such a field is rendered as a member of type                *)
(* LineItems[] | null whatever its own allowNull and primaryKey, and the   *)
(* member is optional exactly when allowNull is not false and the field    *)
(* is not the primary key.                                                 *)
(***************************************************************************)
C2_Rule(member, f) ==
    IsToManyLineItems(f) =>
        /\ member[5] = "LineItems[] | null"
        /\ member[3] = "?" <=> (AllowNullNotFalse(f) /\ ~IsPrimaryKey(f))

C2_ToManyTypeNullableOptionalByFlags ==
    pc = "done" =>
        \A i \in Decls(out) :
            ~DeclIsSystem(out, i) => MembersSatisfy(out, i, C2_Rule)

\* The HasMany field with allowNull false, rendered required, beside the
\* HasMany field without allowNull, rendered optional.
C2_Witness ==
    /\ pc = "done"
    /\ \E i \in Decls(out) :
        /\ Len(DeclBody(out, i)) = 2
        /\ DeclBody(out, i)[1] = <<"  ", "parts", "", ": ", "LineItems[] | null", ";">>
        /\ DeclBody(out, i)[2] = <<"  ", "items", "?", ": ", "LineItems[] | null", ";">>

(***************************************************************************)
(* C3: the type of a relation member is the type name of the target        *)
(* followed by "[] | null" for HasMany and BelongsToMany and by " | null"  *)
(* for BelongsTo and HasOne, whatever allowNull says and whether or not    *)
(* the target is a collection of the input; every declaration of the       *)
(* output is the declaration of a collection of the input, so a target     *)
(* that is absent from the input gets none: the declarations that carry    *)
(* its type name are no more than the collections of the input that give   *)
(* the same type name.                                                     *)
(***************************************************************************)
C3_Rule(member, f) ==
    IsRelationField(f) =>
        /\ IsToMany(f) => member[5] = TypeNameFor(f.target) \o "[] | null"
        /\ IsToOne(f) => member[5] = TypeNameFor(f.target) \o " | null"

\* The relation targets of the input that name no collection of the input.
DanglingTargets ==
    { e.value.target :
        e \in { d \in UNION { Range(s.schema.fields) : s \in Range(schemas) } :
                  /\ IsRelationField(d.value)
                  /\ \A s \in Range(schemas) : s.collectionName # d.value.target } }

C3_RelationTypeByKindAndTarget ==
    pc = "done" =>
        /\ \A i \in Decls(out) :
              ~DeclIsSystem(out, i) => MembersSatisfy(out, i, C3_Rule)
        /\ \A i \in Decls(out) : DeclSources(out, i) # {}
        /\ \A t \in DanglingTargets :
              Cardinality(DeclsNamed(out, TypeNameFor(t)))
                <= Cardinality({ k \in DOMAIN schemas :
                      TypeNameFor(schemas[k].collectionName) = TypeNameFor(t) })

\* One input holds a reference to a collection it contains and a reference
\* to a collection it lacks, and both are rendered by the same rule.
C3_Witness ==
    /\ pc = "done"
    /\ DanglingTargets = {baasix_User}
    /\ \E i \in Decls(out) :
          /\ DeclTypeName(out, i) = "LineItems"
          /\ <<"  ", "ref", "?", ": ", "BaasixUser | null", ";">>
                \in Range(DeclBody(out, i))
    /\ \E i \in Decls(out) :
          /\ DeclTypeName(out, i) = "Orders"
          /\ <<"  ", "ref", "?", ": ", "LineItems | null", ";">>
                \in Range(DeclBody(out, i))

(***************************************************************************)
(* C4: for a field that is not a relation, the type fieldTypeToTS returns  *)
(* is the type the table gives for the kind, whatever the case the kind is *)
(* spelled in, "unknown" for a kind outside the table and for a missing    *)
(* kind, followed by " | null" exactly when allowNull is not false.        *)
(***************************************************************************)
C4_Spelled(kinds, t) == \E k \in DOMAIN kinds : kinds[k] = t

C4_TableType(t) ==
    LET k == CHOOSE k \in DOMAIN KindTypes :
                 UpperKinds[k] = t \/ LowerKinds[k] = t \/ CapitalKinds[k] = t
    IN  KindTypes[k]

C4_Inner(f) ==
    IF "values" \in DOMAIN f /\ "type" \in DOMAIN f.values
    THEN IF f.values.type \in InnerString THEN "string"
         ELSE IF f.values.type \in InnerInteger THEN "number"
         ELSE IF f.values.type \in InnerBoolean THEN "boolean"
         ELSE "unknown"
    ELSE "unknown"

DeclaredLiterals(f) ==
    IF "values" \notin DOMAIN f THEN <<>>
    ELSE IF "items" \in DOMAIN f.values THEN f.values.items
    ELSE IF "values" \in DOMAIN f.values THEN f.values.values
    ELSE <<>>

C4_Union(f) ==
    IF DeclaredLiterals(f) = <<"draft", "published">> THEN "(\"draft\" | \"published\")"
    ELSE IF DeclaredLiterals(f) = <<"b", "a", "c">> THEN "(\"b\" | \"a\" | \"c\")"
    ELSE "string"

C4_Base(f) ==
    IF "type" \notin DOMAIN f THEN "unknown"
    ELSE IF C4_Spelled(UpperKinds, f.type) \/ C4_Spelled(LowerKinds, f.type)
            \/ C4_Spelled(CapitalKinds, f.type)
        THEN C4_TableType(f.type)
    ELSE IF f.type \in ArrayKinds THEN C4_Inner(f) \o "[]"
    ELSE IF f.type \in EnumKinds THEN C4_Union(f)
    ELSE "unknown"

C4_ScalarKindTable ==
    (fpc = "done" /\ ~IsRelationField(field)) =>
        res.type = C4_Base(field) \o (IF AllowNullNotFalse(field) THEN " | null" ELSE "")

\* A kind spelled in lower case, mapped by the table and not nullable.
C4_Witness ==
    /\ fpc = "done"
    /\ field = [type |-> <<"b","i","g","i","n","t">>, allowNull |-> FALSE]
    /\ res = [type |-> "number"]

(***************************************************************************)
(* C5 as stated: a nullable enumeration field with the values "draft" and  *)
(* "published" is rendered as the optional member of type                  *)
(* 'draft' | 'published' | null.                                           *)
(***************************************************************************)
IsDraftPublishedEnum(f) ==
    /\ ~IsRelationField(f)
    /\ "type" \in DOMAIN f /\ f.type \in EnumKinds
    /\ DeclaredLiterals(f) = <<"draft", "published">>
    /\ "allowNull" \in DOMAIN f /\ f.allowNull
    /\ ~IsPrimaryKey(f)

C5_OriginalRule(member, f) ==
    IsDraftPublishedEnum(f) =>
        (member[3] = "?" /\ member[5] = "'draft' | 'published' | null")

C5_Rule(member, f) ==
    IsDraftPublishedEnum(f) =>
        (member[3] = "?" /\ member[5] = "(\"draft\" | \"published\") | null")

Occurrences(n) == Cardinality({ i \in DOMAIN schemas : schemas[i].collectionName = n })

\* The to-one relation fields of user collections that target n.
UserToOneReferences(n) ==
    UNION { { <<i, j>> :
                j \in { j \in DOMAIN schemas[i].schema.fields :
                          /\ IsRelationField(schemas[i].schema.fields[j].value)
                          /\ IsToOne(schemas[i].schema.fields[j].value)
                          /\ schemas[i].schema.fields[j].value.target = n } } :
            i \in { i \in DOMAIN schemas : ~IsSystemName(schemas[i].collectionName) } }

MemberNames(o, i) ==
    LET members == DeclMembers(o, i)
    IN  [k \in DOMAIN members |-> members[k][2]]

C6_OnlyNonRelationFields(o, i, s) ==
    /\ \A name \in Range(MemberNames(o, i)) :
          \E e \in Range(s.schema.fields) :
              e.key = name /\ ~IsRelationField(e.value)
    /\ \A e \in Range(s.schema.fields) :
          ("relType" \notin DOMAIN e.value) => e.key \in Range(MemberNames(o, i))

C6_ReferencedSystemDeclaredOnce ==
    pc = "done" =>
        \A s \in Range(schemas) :
            ( /\ IsSystemName(s.collectionName)
              /\ Occurrences(s.collectionName) = 1
              /\ UserToOneReferences(s.collectionName) # {} )
            => /\ Cardinality(DeclsNamed(out, TypeNameFor(s.collectionName))) = 1
               /\ \A i \in DeclsNamed(out, TypeNameFor(s.collectionName)) :
                     /\ DeclIsSystem(out, i)
                     /\ C6_OnlyNonRelationFields(out, i, s)

\* Three fields of two user collections reference baasix_User, which holds
\* a relation field of its own, and the one declaration is BaasixUser { id }.
C6_Witness ==
    /\ pc = "done"
    /\ Cardinality(UserToOneReferences(baasix_User)) = 3
    /\ Occurrences(baasix_User) = 1
    /\ \E s \in Range(schemas) :
          s.collectionName = baasix_User /\ Len(s.schema.fields) = 2
    /\ \E i \in DeclsNamed(out, "BaasixUser") : MemberNames(out, i) = <<"id">>

(***************************************************************************)
(* C7: no member of an emitted system-collection declaration comes from a  *)
(* relation field of that system collection.                               *)
(***************************************************************************)
C7_Rule(member, f) == ~IsRelationField(f)

C7_NoRelationMemberInSystemDecl ==
    pc = "done" =>
        \A i \in Decls(out) :
            DeclIsSystem(out, i) => MembersSatisfy(out, i, C7_Rule)

\* A system collection with a relation and a scalar is declared with the
\* scalar alone.
C7_Witness ==
    /\ pc = "done"
    /\ Len(schemas) = 1
    /\ schemas[1].collectionName = baasix_User
    /\ Len(schemas[1].schema.fields) = 2
    /\ schemas[1].schema.fields[1].key = "owner"
    /\ schemas[1].schema.fields[2].key = "title"
    /\ \E i \in Decls(out) :
          DeclIsSystem(out, i) /\ MemberNames(out, i) = <<"title">>

(***************************************************************************)
(* Which collections reference which                                       *)
(***************************************************************************)
\* The schemas of the input that hold a relation field targeting n.
Referrers(n) ==
    { s \in Range(schemas) :
        \E e \in Range(s.schema.fields) :
            IsRelationField(e.value) /\ e.value.target = n }

HasDecl(n) == DeclsNamed(out, TypeNameFor(n)) # {}

(***************************************************************************)
(* C8 as stated: a system collection that no collection other than itself  *)
(* references gets no type declaration.                                    *)
(***************************************************************************)
C8_Original_SelfReferenceNotCollected ==
    pc = "done" =>
        \A s \in Range(schemas) :
            ( /\ IsSystemName(s.collectionName)
              /\ \A r \in Referrers(s.collectionName) :
                    r.collectionName = s.collectionName )
            => ~HasDecl(s.collectionName)

(***************************************************************************)
(* C8 amended: the set of referenced system collections holds every        *)
(* relation target that carries the baasix_ prefix, the target of a        *)
(* self-reference included: a system collection of the input gets a type   *)
(* declaration exactly when some relation field of the input, its own      *)
(* included, targets it.                                                   *)
(***************************************************************************)
C8_DeclaredIffTargeted ==
    pc = "done" =>
        \A s \in Range(schemas) :
            IsSystemName(s.collectionName) =>
                (HasDecl(s.collectionName) <=> Referrers(s.collectionName) # {})

\* The only reference to baasix_User is its own, and BaasixUser is declared.
C8_Witness ==
    /\ pc = "done"
    /\ \A r \in Referrers(baasix_User) : r.collectionName = baasix_User
    /\ Referrers(baasix_User) # {}
    /\ HasDecl(baasix_User)

(***************************************************************************)
(* C9 as stated: a system collection that is referenced by relation fields *)
(* of other system collections and by no user collection is not emitted.   *)
(***************************************************************************)
ReferencedOnlyBySystem(n) ==
    /\ \A r \in Referrers(n) : IsSystemName(r.collectionName)
    /\ \E r \in Referrers(n) : r.collectionName # n

C9_Original_SystemReferencesIgnored ==
    pc = "done" =>
        \A s \in Range(schemas) :
            (IsSystemName(s.collectionName) /\ ReferencedOnlyBySystem(s.collectionName))
            => ~HasDecl(s.collectionName)

(***************************************************************************)
(* C9 amended: the referenced set is collected in one pass over the        *)
(* relation fields of every schema of the input, system collections        *)
(* included, so a system collection referenced only by other system        *)
(* collections is emitted, once per occurrence in the input; synthesis     *)
(* goes no further: every system declaration is that of a collection which *)
(* is itself the target of a relation field of the input.                  *)
(***************************************************************************)
SystemDecls(o) == { i \in Decls(o) : DeclIsSystem(o, i) }

C9_SinglePassOverAllSchemas ==
    pc = "done" =>
        /\ \A s \in Range(schemas) :
              (IsSystemName(s.collectionName) /\ ReferencedOnlyBySystem(s.collectionName))
              => Cardinality(DeclsNamed(out, TypeNameFor(s.collectionName)))
                    = Occurrences(s.collectionName)
        /\ \A i \in SystemDecls(out) :
              \E s \in DeclSources(out, i) : Referrers(s.collectionName) # {}

\* baasix_Role is referenced by baasix_User alone, and BaasixRole is declared.
C9_Witness ==
    /\ pc = "done"
    /\ ReferencedOnlyBySystem(baasix_Role)
    /\ Occurrences(baasix_Role) = 1
    /\ \A s \in Range(schemas) : IsSystemName(s.collectionName)
    /\ HasDecl(baasix_Role)

(***************************************************************************)
(* C10: the user declarations of the output are those of the non-system    *)
(* schemas of the input, one each and in input order; the lines of each,   *)
(* annotations aside, are one member per entry of fields in the order of   *)
(* fields, then createdAt and updatedAt when timestamps is true, then      *)
(* deletedAt when paranoid is true, and no other.                          *)
(***************************************************************************)
\* The elements of a set of numbers in increasing order.
RECURSIVE Ascending(_)
Ascending(S) ==
    IF S = {} THEN <<>>
    ELSE LET least == CHOOSE x \in S : \A y \in S : x <= y
         IN  <<least>> \o Ascending(S \ {least})

UserDecls(o) == Ascending({ i \in Decls(o) : ~DeclIsSystem(o, i) })

NonSystemSchemas ==
    LET Test(s) == ~IsSystemName(s.collectionName)
    IN  SelectSeq(schemas, Test)

FlagSet(s, flag) == flag \in DOMAIN s.schema /\ s.schema[flag]

ImplicitMembers(s) ==
    (IF FlagSet(s, "timestamps")
     THEN << <<"  createdAt?: string;">>, <<"  updatedAt?: string;">> >>
     ELSE <<>>)
    \o (IF FlagSet(s, "paranoid")
        THEN << <<"  deletedAt?: string | null;">> >>
        ELSE <<>>)

C10_DeclOf(o, i, s) ==
    LET NotAnnotation(line) == ~IsAnnotation(line)
        body == SelectSeq(DeclBody(o, i), NotAnnotation)
        n == Len(s.schema.fields)
    IN  /\ DeclTypeName(o, i) = TypeNameFor(s.collectionName)
        /\ Len(body) = n + Len(ImplicitMembers(s))
        /\ \A k \in 1..n : IsMember(body[k]) /\ body[k][2] = s.schema.fields[k].key
        /\ SubSeq(body, n + 1, Len(body)) = ImplicitMembers(s)

C10_UserDeclsInInputOrder ==
    pc = "done" =>
        /\ Len(UserDecls(out)) = Len(NonSystemSchemas)
        /\ \A k \in DOMAIN NonSystemSchemas :
              C10_DeclOf(out, UserDecls(out)[k], NonSystemSchemas[k])

\* Two user collections after a system collection, in input order; and a
\* collection with two fields and both flags.
C10_WitnessOrder ==
    /\ pc = "done"
    /\ Len(schemas) = 3
    /\ schemas[1].collectionName = baasix_User
    /\ schemas[2].collectionName = line_items
    /\ schemas[3].collectionName = orders
    /\ Len(UserDecls(out)) = 2
    /\ DeclTypeName(out, UserDecls(out)[1]) = "LineItems"
    /\ DeclTypeName(out, UserDecls(out)[2]) = "Orders"

C10_Witness ==
    /\ pc = "done"
    /\ Len(schemas) = 1
    /\ schemas[1].collectionName = orders
    /\ Len(UserDecls(out)) = 1
    /\ DeclBody(out, UserDecls(out)[1])
          = << <<"  /** ", "@min 0 @precision 10,2", " */">>,
               <<"  ", "total", "", ": ", "number", ";">>,
               <<"  ", "id", "", ": ", "string | null", ";">>,
               <<"  createdAt?: string;">>,
               <<"  updatedAt?: string;">>,
               <<"  deletedAt?: string | null;">> >>

(***************************************************************************)
(* Reading the name union and the name map                                 *)
(***************************************************************************)
\* The position of the first line equal to line at or after j, and
\* Len(o) + 1 when there is none.
RECURSIVE LineFrom(_, _, _)
LineFrom(o, j, line) ==
    IF j > Len(o) THEN j
    ELSE IF o[j] = line THEN j
    ELSE LineFrom(o, j + 1, line)

\* The lines of o strictly between the first line equal to open and the
\* first line equal to close after it.
LinesBetween(o, open, close) ==
    LET p == LineFrom(o, 1, open)
        q == LineFrom(o, p + 1, close)
    IN  SubSeq(o, p + 1, q - 1)

UnionLines(o) == LinesBetween(o, <<"export type CollectionName =">>, <<";">>)

MapLines(o) == LinesBetween(o, <<"export interface CollectionTypeMap {">>, <<"}">>)

(***************************************************************************)
(* C11: the literals of the CollectionName union and the keys of           *)
(* CollectionTypeMap are the names of the non-system collections of the    *)
(* input, one line each and in input order; the map gives each name the    *)
(* type name derived from it; a baasix_ collection is in neither, even     *)
(* when its type declaration is emitted.                                   *)
(***************************************************************************)
C11_UnionAndMapAreUserNames ==
    pc = "done" =>
        /\ Len(UnionLines(out)) = Len(NonSystemSchemas)
        /\ Len(MapLines(out)) = Len(NonSystemSchemas)
        /\ \A k \in DOMAIN NonSystemSchemas :
              LET n == NonSystemSchemas[k].collectionName
              IN  /\ UnionLines(out)[k] = <<"  | \"", Str(n), "\"">>
                  /\ MapLines(out)[k] = <<"  ", Str(n), ": ", TypeNameFor(n), ";">>

\* baasix_User is declared between two user collections that are listed in
\* input order, and is listed in neither the union nor the map.
C11_Witness ==
    /\ pc = "done"
    /\ Len(schemas) = 3
    /\ schemas[2].collectionName = baasix_User
    /\ HasDecl(baasix_User)
    /\ UnionLines(out) = << <<"  | \"", "line_items", "\"">>,
                            <<"  | \"", "orders", "\"">> >>
    /\ MapLines(out) = << <<"  ", "line_items", ": ", "LineItems", ";">>,
                          <<"  ", "orders", ": ", "Orders", ";">> >>

(***************************************************************************)
(* C12 as stated: for an input without a non-system schema the output      *)
(* still starts with the preamble and the GeoJSON block, the name union    *)
(* has a right-hand side (at least one line of text between its "=" and    *)
(* its ";", a member or a written-out empty type) and the name map is an   *)
(* empty mapping (its opening line followed by its closing line).          *)
(***************************************************************************)
GeoJSONBlock ==
    << <<"// GeoJSON types for PostGIS fields">>,
       <<"declare namespace GeoJSON {">>,
       <<"  interface Point { type: 'Point'; coordinates: [number, number]; }">>,
       <<"  interface LineString { type: 'LineString'; coordinates: [number, number][]; }">>,
       <<"  interface Polygon { type: 'Polygon'; coordinates: [number, number][][]; }">>,
       <<"  type Geometry = Point | LineString | Polygon;">>,
       <<"}">> >>

StartsWithPreambleAndGeoJSON(o) ==
    /\ Len(o) >= 15
    /\ o[1] = <<"/**">>
    /\ Len(o[3]) = 2 /\ o[3][1] = " * Generated at: " /\ o[3][2] \in Times
    /\ o[6] = <<" */">>
    /\ SubSeq(o, 8, 14) = GeoJSONBlock

UnionHasRightHandSide(o) ==
    /\ LineFrom(o, 1, <<"export type CollectionName =">>) <= Len(o)
    /\ UnionLines(o) # <<>>

MapIsWellFormed(o) ==
    LET p == LineFrom(o, 1, <<"export interface CollectionTypeMap {">>)
    IN  /\ p <= Len(o)
        /\ LineFrom(o, p + 1, <<"}">>) <= Len(o)
        /\ \A k \in DOMAIN MapLines(o) : Len(MapLines(o)[k]) = 5

C12_Original_EmptyUnionWellFormed ==
    (pc = "done" /\ NonSystemSchemas = <<>>) =>
        /\ StartsWithPreambleAndGeoJSON(out)
        /\ UnionHasRightHandSide(out)
        /\ MapIsWellFormed(out)
        /\ MapLines(out) = <<>>

\* Only system collections in the input, one of them declared: the output
\* starts with the preamble and the GeoJSON block, the map is empty and
\* nothing stands between the "=" of the union and its ";".
C12_Witness ==
    /\ pc = "done"
    /\ NonSystemSchemas = <<>>
    /\ HasDecl(baasix_Role)
    /\ StartsWithPreambleAndGeoJSON(out)
    /\ MapIsWellFormed(out) /\ MapLines(out) = <<>>
    /\ LET p == LineFrom(out, 1, <<"export type CollectionName =">>)
       IN  p < Len(out) /\ out[p + 1] = <<";">>

(***************************************************************************)
(* C13: toPascalCase drops every dash and underscore of the name and       *)
(* writes each other character in upper case when it starts a word (it is  *)
(* the first character or follows a dash or underscore) and in lower case  *)
(* otherwise; "order_items" and "order-items" both give "OrderItems".      *)
(***************************************************************************)
IsSeparator(c) == c \in {"-", "_"}

\* The positions of s that hold no separator, in order.
KeptPositions(s) ==
    LET Kept(i) == ~IsSeparator(s[i])
    IN  SelectSeq([i \in 1..Len(s) |-> i], Kept)

StartsWord(s, i) == i = 1 \/ IsSeparator(s[i - 1])

C13_Expected(s) ==
    LET kept == KeptPositions(s)
    IN  [k \in DOMAIN kept |->
            IF StartsWord(s, kept[k]) THEN ToUpperChar(s[kept[k]])
            ELSE ToLowerChar(s[kept[k]])]

C13_PascalCaseOfWords ==
    spc \in {"once", "twice"} =>
        /\ pascal[1] = C13_Expected(input)
        /\ input \in {order_items, order_dash_items} => Str(pascal[1]) = "OrderItems"

\* "order-items" gave "OrderItems".
C13_Witness ==
    /\ spc = "once"
    /\ input = order_dash_items
    /\ pascal = <<OrderItems>>

(***************************************************************************)
(* C14 as stated: toPascalCase returns its own result unchanged, so        *)
(* toPascalCase(toPascalCase(n)) = toPascalCase(n) for every name n.       *)
(***************************************************************************)
C14_Original_Idempotent ==
    spc = "twice" => pascal[2] = pascal[1]

(***************************************************************************)
(* C14 amended: toPascalCase returns unchanged a single word, that is a    *)
(* string without dash or underscore whose first character is not a        *)
(* lower-case letter and whose other characters are not upper-case         *)
(* letters; applied to its own result it keeps the first character and     *)
(* lower-cases every other one, so the result is kept exactly when it has  *)
(* no upper-case letter after the first character, and "OrderItems" gives  *)
(* "Orderitems".                                                           *)
(***************************************************************************)
IsSingleWord(s) ==
    /\ \A i \in DOMAIN s : ~IsSeparator(s[i])
    /\ s # <<>> => ToUpperChar(s[1]) = s[1]
    /\ \A i \in DOMAIN s : i > 1 => ToLowerChar(s[i]) = s[i]

FirstKeptRestLowered(s) ==
    [i \in DOMAIN s |-> IF i = 1 THEN s[i] ELSE ToLowerChar(s[i])]

C14_SingleWordFixedRestLowered ==
    /\ (spc \in {"once", "twice"} /\ IsSingleWord(input)) => pascal[1] = input
    /\ (spc \in {"once", "twice"} /\ input = OrderItems)
          => Str(pascal[1]) = "Orderitems"
    /\ spc = "twice" =>
          /\ pascal[2] = FirstKeptRestLowered(pascal[1])
          /\ pascal[2] = pascal[1] <=> IsSingleWord(pascal[1])

\* "order_items" gave "OrderItems", which gave "Orderitems".
C14_Witness ==
    /\ spc = "twice"
    /\ input = order_items
    /\ Str(pascal[1]) = "OrderItems"
    /\ Str(pascal[2]) = "Orderitems"

\* A single word that came back unchanged, twice.
C14_WitnessFixed ==
    /\ spc = "twice"
    /\ input = <<"B", "a", "1", "a">>
    /\ pascal = <<input, input>>

(***************************************************************************)
(* Reading the constraints of a descriptor                                 *)
(*                                                                         *)
(* The parts of an annotation, group by group.  A constraint yields a part *)
(* when its key is present (min, max, len), when its flag is true (the     *)
(* formats), when its text is not empty (regex) or when its numbers are    *)
(* not 0 (length; precision and scale, both).                              *)
(***************************************************************************)
Validate(f) == IF "validate" \in DOMAIN f THEN f.validate ELSE NoMeta

ValuesObject(f) ==
    IF "values" \in DOMAIN f /\ ~f.values.array THEN f.values ELSE NoMeta

PartIf(cond, text) == IF cond THEN <<text>> ELSE <<>>

RangeParts(f) ==
    LET v == Validate(f)
    IN  (IF "min" \in DOMAIN v THEN <<"@min " \o NumToStr(v.min)>> ELSE <<>>)
        \o (IF "max" \in DOMAIN v THEN <<"@max " \o NumToStr(v.max)>> ELSE <<>>)

LengthRangeParts(f) ==
    LET v == Validate(f)
    IN  IF "len" \in DOMAIN v
        THEN <<"@length " \o NumToStr(v.len[1]) \o "-" \o NumToStr(v.len[2])>>
        ELSE <<>>

FormatParts(f) ==
    LET v == Validate(f)
        On(k) == k \in DOMAIN v /\ v[k]
    IN  PartIf(On("isEmail"), "@format email") \o PartIf(On("isUrl"), "@format url")
        \o PartIf(On("isIP"), "@format ip") \o PartIf(On("isUUID"), "@format uuid")

PatternParts(f) ==
    LET v == Validate(f)
    IN  IF "regex" \in DOMAIN v /\ v.regex # ""
        THEN <<"@pattern " \o v.regex>> ELSE <<>>

MaxLengthParts(f) ==
    LET vals == ValuesObject(f)
    IN  IF "length" \in DOMAIN vals /\ vals.length # 0
        THEN <<"@maxLength " \o NumToStr(vals.length)>> ELSE <<>>

PrecisionParts(f) ==
    LET vals == ValuesObject(f)
    IN  IF /\ "precision" \in DOMAIN vals /\ vals.precision # 0
           /\ "scale" \in DOMAIN vals /\ vals.scale # 0
        THEN <<"@precision " \o NumToStr(vals.precision) \o "," \o NumToStr(vals.scale)>>
        ELSE <<>>

\* The member at position k of body comes with the annotation whose parts
\* are parts: none when parts is empty, else one line, just before it.
AnnotatedBy(body, k, parts) ==
    IF parts = <<>>
    THEN k = 1 \/ ~IsAnnotation(body[k - 1])
    ELSE /\ k > 1
         /\ body[k - 1] = <<"  /** ", Join(parts, " "), " */">>
         /\ k = 2 \/ ~IsAnnotation(body[k - 2])

\* Every member of the declaration at i comes from an entry of the fields of
\* one source schema and is annotated by the parts Parts gives for the entry
\* (none for a relation field); every annotation line stands before a member.
AnnotationsSatisfy(o, i, Parts(_)) ==
    LET body == DeclBody(o, i)
    IN  /\ \E s \in DeclSources(o, i) :
              \A k \in DOMAIN body :
                  IsMember(body[k]) =>
                      \E e \in Range(s.schema.fields) :
                          /\ e.key = body[k][2]
                          /\ AnnotatedBy(body, k,
                                 IF IsRelationField(e.value) THEN <<>>
                                 ELSE Parts(e.value))
        /\ \A k \in DOMAIN body :
              IsAnnotation(body[k]) => (k < Len(body) /\ IsMember(body[k + 1]))

(***************************************************************************)
(* C15 as stated: every scalar field whose constraints yield a part gets   *)
(* one annotation line just before its member, with the parts in the order *)
(* range (min, max), length (length range, exact max length), format       *)
(* (email, url, ip, uuid), pattern, precision.                             *)
(***************************************************************************)
C15_OriginalParts(f) ==
    RangeParts(f) \o LengthRangeParts(f) \o MaxLengthParts(f)
        \o FormatParts(f) \o PatternParts(f) \o PrecisionParts(f)

C15_Original_MaxLengthWithLength ==
    pc = "done" =>
        \A i \in Decls(out) : AnnotationsSatisfy(out, i, C15_OriginalParts)

(***************************************************************************)
(* C15 amended: every scalar field whose constraints yield a part gets     *)
(* exactly one annotation line, just before its member, and no other       *)
(* member gets one; the parts stand in the order min, max, length range,   *)
(* format (email, url, ip, uuid), pattern, exact max length, precision.    *)
(***************************************************************************)
C15_Parts(f) ==
    RangeParts(f) \o LengthRangeParts(f) \o FormatParts(f)
        \o PatternParts(f) \o MaxLengthParts(f) \o PrecisionParts(f)

C15_AnnotationBeforeMemberInOrder ==
    pc = "done" =>
        \A i \in Decls(out) : AnnotationsSatisfy(out, i, C15_Parts)

\* The field with every constraint, annotated, before a field without one.
C15_Witness ==
    /\ pc = "done"
    /\ \E i \in Decls(out) :
          DeclBody(out, i)
            = << <<"  /** ",
                   "@min 1 @max 9 @length 3-50 @format email @format url @format ip @format uuid @pattern ^x$ @maxLength 255 @precision 10,2",
                   " */">>,
                 <<"  ", "contact", "?", ": ", "string | null", ";">>,
                 <<"  ", "title", "?", ": ", "string | null", ";">> >>

(***************************************************************************)
(* C16 as stated: each constraint present in the descriptor of a field     *)
(* (min, max, length range, exact max length, a format flag that is set,   *)
(* pattern, precision with scale) contributes its part whatever its value, *)
(* 0 included, an absent one contributes nothing, and a field without a    *)
(* constraint has no annotation; a string field with length range [3, 50]  *)
(* gets an annotation naming 3 and 50 and the type string | null.          *)
(***************************************************************************)
PresentPatternParts(f) ==
    LET v == Validate(f)
    IN  IF "regex" \in DOMAIN v THEN <<"@pattern " \o v.regex>> ELSE <<>>

PresentMaxLengthParts(f) ==
    LET vals == ValuesObject(f)
    IN  IF "length" \in DOMAIN vals
        THEN <<"@maxLength " \o NumToStr(vals.length)>> ELSE <<>>

PresentPrecisionParts(f) ==
    LET vals == ValuesObject(f)
    IN  IF "precision" \in DOMAIN vals /\ "scale" \in DOMAIN vals
        THEN <<"@precision " \o NumToStr(vals.precision) \o "," \o NumToStr(vals.scale)>>
        ELSE <<>>

C16_PresentParts(f) ==
    RangeParts(f) \o LengthRangeParts(f) \o FormatParts(f)
        \o PresentPatternParts(f) \o PresentMaxLengthParts(f)
        \o PresentPrecisionParts(f)

\* A string field whose only constraint is the length range [3, 50].
IsLengthRangeString(f) ==
    /\ ~IsRelationField(f)
    /\ "type" \in DOMAIN f /\ Str(toUpperCase(f.type)) = "STRING"
    /\ "validate" \in DOMAIN f /\ f.validate = [len |-> <<3, 50>>]
    /\ "values" \notin DOMAIN f

C16_Original_PresentWhateverValue ==
    (fpc = "done" /\ ~IsRelationField(field)) =>
        /\ IF C16_PresentParts(field) = <<>>
           THEN "jsdoc" \notin DOMAIN res
           ELSE /\ "jsdoc" \in DOMAIN res
                /\ res.jsdoc = Join(C16_PresentParts(field), " ")
        /\ (IsLengthRangeString(field) /\ AllowNullNotFalse(field))
              => res = [type |-> "string | null", jsdoc |-> "@length 3-50"]

\* A decimal field with precision 10 and scale 0 came back without an
\* annotation.
C16_Witness ==
    /\ fpc = "done"
    /\ field = [type |-> <<"D","E","C","I","M","A","L">>,
                values |-> [array |-> FALSE, precision |-> 10, scale |-> 0]]
    /\ res = [type |-> "number | null"]

\* The string field with length range [3, 50] came back annotated.
C16_WitnessLengthRange ==
    /\ fpc = "done"
    /\ IsLengthRangeString(field)
    /\ res = [type |-> "string | null", jsdoc |-> "@length 3-50"]

(***************************************************************************)
(* C17 as stated: when a field descriptor of the input is structurally     *)
(* invalid (it has neither a kind nor a relType with a target, or it has a *)
(* relType without a target), the run fails and produces no output text.   *)
(***************************************************************************)
IsMalformed(f) ==
    /\ ~IsRelationField(f)
    /\ "type" \notin DOMAIN f \/ "relType" \in DOMAIN f

MalformedEntries(s) == { e \in Range(s.schema.fields) : IsMalformed(e.value) }

HasMalformed == \E s \in Range(schemas) : MalformedEntries(s) # {}

C17_Original_MalformedFails ==
    HasMalformed => (pc # "done" /\ out = <<>>)

(***************************************************************************)
(* C17 amended: a structurally invalid descriptor never makes the          *)
(* generator fail.  The run ends with the whole output, from the preamble  *)
(* to the name map, and in the declaration of its user collection the      *)
(* field is a member like any scalar: typed by its kind when it has one,   *)
(* unknown when it has none, with | null unless allowNull is false.  In a  *)
(* system declaration a member that comes from such a field is typed the   *)
(* same way.                                                               *)
(***************************************************************************)
C17_Rule(member, f) ==
    IsMalformed(f) =>
        member[5] = C4_Base(f) \o (IF AllowNullNotFalse(f) THEN " | null" ELSE "")

C17_Rendered(o, i, e) ==
    \E k \in DOMAIN DeclMembers(o, i) :
        /\ DeclMembers(o, i)[k][2] = e.key
        /\ C17_Rule(DeclMembers(o, i)[k], e.value)

C17_MalformedRenderedAsScalar ==
    (pc = "done" /\ HasMalformed) =>
        /\ StartsWithPreambleAndGeoJSON(out)
        /\ MapIsWellFormed(out)
        /\ Len(UserDecls(out)) = Len(NonSystemSchemas)
        /\ \A k \in DOMAIN NonSystemSchemas :
              \A e \in MalformedEntries(NonSystemSchemas[k]) :
                  C17_Rendered(out, UserDecls(out)[k], e)
        /\ \A i \in SystemDecls(out) : MembersSatisfy(out, i, C17_Rule)

\* A descriptor without any key and a relType without a target, both
\* rendered as members of the declaration of their collection.
C17_Witness ==
    /\ pc = "done"
    /\ Len(schemas) = 1
    /\ schemas[1].collectionName = orders
    /\ DeclBody(out, UserDecls(out)[1])
          = << <<"  ", "blank", "?", ": ", "unknown | null", ";">>,
               <<"  ", "broken", "?", ": ", "string | null", ";">> >>

(***************************************************************************)
(* C18 as stated: when two distinct non-system collection names of the     *)
(* input give the same type name, the output holds a single declaration    *)
(* under that name, that of the collection that comes later in the input.  *)
(***************************************************************************)
\* The positions in NonSystemSchemas of the collections whose type name is
\* also that of a non-system collection with another name.
Colliding ==
    { k \in DOMAIN NonSystemSchemas :
        \E j \in DOMAIN NonSystemSchemas :
            /\ NonSystemSchemas[j].collectionName # NonSystemSchemas[k].collectionName
            /\ TypeNameFor(NonSystemSchemas[j].collectionName)
                 = TypeNameFor(NonSystemSchemas[k].collectionName) }

UserDeclsNamed(o, typeName) ==
    { i \in DeclsNamed(o, typeName) : ~DeclIsSystem(o, i) }

\* The last position in NonSystemSchemas of a collection with the type name
\* of the one at k.
LastWithTypeNameOf(k) ==
    CHOOSE j \in DOMAIN NonSystemSchemas :
        /\ TypeNameFor(NonSystemSchemas[j].collectionName)
             = TypeNameFor(NonSystemSchemas[k].collectionName)
        /\ \A l \in DOMAIN NonSystemSchemas :
              TypeNameFor(NonSystemSchemas[l].collectionName)
                 = TypeNameFor(NonSystemSchemas[k].collectionName) => l <= j

C18_Original_LastWriteWins ==
    pc = "done" =>
        \A k \in Colliding :
            LET typeName == TypeNameFor(NonSystemSchemas[k].collectionName)
            IN  /\ Cardinality(UserDeclsNamed(out, typeName)) = 1
                /\ \A i \in UserDeclsNamed(out, typeName) :
                      C10_DeclOf(out, i, NonSystemSchemas[LastWithTypeNameOf(k)])

(***************************************************************************)
(* C18 amended: when two distinct non-system collection names of the input *)
(* give the same type name, nothing is overwritten: the output holds one   *)
(* declaration under that name for each of the collections, each with the  *)
(* members of its own collection, at the collection's place in input       *)
(* order, and the name map gives both names that type name.                *)
(***************************************************************************)
C18_CollidingNamesBothDeclared ==
    pc = "done" =>
        /\ Len(UserDecls(out)) = Len(NonSystemSchemas)
        /\ \A k \in Colliding :
              LET s == NonSystemSchemas[k]
                  typeName == TypeNameFor(s.collectionName)
              IN  /\ C10_DeclOf(out, UserDecls(out)[k], s)
                  /\ Cardinality(UserDeclsNamed(out, typeName))
                       = Cardinality({ j \in DOMAIN NonSystemSchemas :
                            TypeNameFor(NonSystemSchemas[j].collectionName) = typeName })
                  /\ MapLines(out)[k] = <<"  ", Str(s.collectionName), ": ", typeName, ";">>

\* "line_items" before "line-items": two declarations named LineItems, the
\* first with the member of the first collection, the second with that of
\* the second.
C18_Witness ==
    /\ pc = "done"
    /\ Len(schemas) = 2
    /\ schemas[1].collectionName = line_items
    /\ schemas[2].collectionName = line_dash_items
    /\ Len(UserDecls(out)) = 2
    /\ DeclTypeName(out, UserDecls(out)[1]) = "LineItems"
    /\ DeclTypeName(out, UserDecls(out)[2]) = "LineItems"
    /\ DeclBody(out, UserDecls(out)[1]) = << <<"  ", "id", "", ": ", "string", ";">> >>
    /\ DeclBody(out, UserDecls(out)[2])
          = << <<"  ", "sku", "?", ": ", "string | null", ";">> >>

(***************************************************************************)
(* C19: two runs of the same target on the same schemas give the same      *)
(* output once the text after "Generated at: " is normalized, for the      *)
(* target "types" and for the target "sdk-types".                          *)
(***************************************************************************)
IsTimestampLine(line) == Len(line) = 2 /\ line[1] = " * Generated at: "

Normalized(o) ==
    [i \in DOMAIN o |->
        IF IsTimestampLine(o[i]) THEN <<o[i][1], "<timestamp>">> ELSE o[i]]

C19_WitnessTypes ==
    /\ Len(runs) = 2
    /\ Len(schemas) = 3
    /\ runs[1].target = "types" /\ runs[2].target = "types"
    /\ runs[1].output # runs[2].output
    /\ Normalized(runs[1].output) = Normalized(runs[2].output)

(***************************************************************************)
(* C20: the output of an "sdk-types" run is its own preamble, then the     *)
(* whole output of a "types" run on the same schemas (timestamp aside),    *)
(* then the factory, whose accessors are the names of the non-system       *)
(* collections in input order, each bound to the type name derived from    *)
(* it; the accessor names are those of the members of the CollectionName   *)
(* union of the same output.                                               *)
(***************************************************************************)
SDKPreambleLen == Len(SDKPreamble(""))

AccessorLinesOf(o) == LinesBetween(o, <<"    collections: {">>, <<"    },">>)

\* The names of the lines, each read at the position pos of its line.
NamesAt(lines, pos) == { lines[k][pos] : k \in DOMAIN lines }

C20_Accessors(o) ==
    /\ Len(AccessorLinesOf(o)) = Len(NonSystemSchemas)
    /\ \A k \in DOMAIN NonSystemSchemas :
          LET n == NonSystemSchemas[k].collectionName
          IN  AccessorLinesOf(o)[k]
                = <<"      ", Str(n), ": client.items<", TypeNameFor(n), ">(\"",
                    Str(n), "\"),">>
    /\ NamesAt(AccessorLinesOf(o), 2) = NamesAt(UnionLines(o), 2)

C20_ContainsTypes(sdk, types) ==
    LET n == Len(types)
        rest == SubSeq(sdk, SDKPreambleLen + n + 1, Len(sdk))
    IN  /\ Len(sdk) >= SDKPreambleLen + n + Len(FactoryOpening) + Len(FactoryClosing)
        /\ Normalized(SubSeq(sdk, SDKPreambleLen + 1, SDKPreambleLen + n))
             = Normalized(types)
        /\ SubSeq(rest, 1, Len(FactoryOpening)) = FactoryOpening
        /\ SubSeq(rest, Len(FactoryOpening) + 1, Len(rest) - Len(FactoryClosing))
             = AccessorLinesOf(sdk)
        /\ SubSeq(rest, Len(rest) - Len(FactoryClosing) + 1, Len(rest)) = FactoryClosing

C20_SDKTypesWrapTypes ==
    \A i \in DOMAIN runs :
        runs[i].target = "sdk-types" =>
            /\ C20_Accessors(runs[i].output)
            /\ \A j \in DOMAIN runs :
                  runs[j].target = "types"
                  => C20_ContainsTypes(runs[i].output, runs[j].output)

\* A "types" run, then an "sdk-types" run on a system collection between
\* two user collections: two accessors, in input order.
C20_Witness ==
    /\ Len(runs) = 2
    /\ runs[1].target = "types" /\ runs[2].target = "sdk-types"
    /\ Len(schemas) = 3
    /\ schemas[2].collectionName = baasix_User
    /\ AccessorLinesOf(runs[2].output)
          = << <<"      ", "line_items", ": client.items<", "LineItems", ">(\"",
                 "line_items", "\"),">>,
               <<"      ", "orders", ": client.items<", "Orders", ">(\"",
                 "orders", "\"),">> >>

(***************************************************************************)
(* The commands: values, configuration, HTTP client                        *)
(*                                                                         *)
(* A value that may be undefined (an environment variable, a key of the    *)
(* configuration) is a sequence of at most one element: <<>> is undefined, *)
(* <<v>> is the value v.  env, dotenv and opts are objects: records whose  *)
(* DOMAIN holds the keys that are present.                                 *)
(***************************************************************************)
Undefined == <<>>

\* o[k], undefined when the key is absent
Lookup(o, k) == IF Has(o, k) THEN <<o[k]>> ELSE Undefined

\* JavaScript truthiness of a string that may be undefined
Truthy(v) == v # Undefined /\ v[1] # ""

\* a || b
OrElse(a, b) == IF Truthy(a) THEN a ELSE b

\* { ...a, ...b }
Spread(a, b) ==
    [k \in (DOMAIN a) \cup (DOMAIN b) |-> IF k \in DOMAIN b THEN b[k] ELSE a[k]]

DefaultUrl == "http://localhost:8056"

\* getConfig without the default URL: null when no URL is configured.
getConfig_NoDefault(file, processEnv) ==
    LET envVars == IF file = Null THEN EmptyObject ELSE file
        mergedEnv == Spread(envVars, processEnv)
        url == OrElse(Lookup(mergedEnv, "BAASIX_URL"), Lookup(mergedEnv, "API_URL"))
    IN  IF ~Truthy(url) THEN Null
        ELSE [url |-> url,
              email |-> OrElse(Lookup(mergedEnv, "BAASIX_EMAIL"),
                               Lookup(mergedEnv, "ADMIN_EMAIL")),
              password |-> OrElse(Lookup(mergedEnv, "BAASIX_PASSWORD"),
                                  Lookup(mergedEnv, "ADMIN_PASSWORD")),
              token |-> OrElse(Lookup(mergedEnv, "BAASIX_TOKEN"),
                               Lookup(mergedEnv, "BAASIX_AUTH_TOKEN"))]

\* getConfig(cwd): file is the parsed .env of cwd (Null when there is none),
\* processEnv is process.env.
getConfig(file, processEnv) ==
    LET envVars == IF file = Null THEN EmptyObject ELSE file
        mergedEnv == Spread(envVars, processEnv)
        url == OrElse(OrElse(Lookup(mergedEnv, "BAASIX_URL"),
                             Lookup(mergedEnv, "API_URL")),
                      <<DefaultUrl>>)
        email == OrElse(Lookup(mergedEnv, "BAASIX_EMAIL"),
                        Lookup(mergedEnv, "ADMIN_EMAIL"))
        password == OrElse(Lookup(mergedEnv, "BAASIX_PASSWORD"),
                           Lookup(mergedEnv, "ADMIN_PASSWORD"))
        token == OrElse(Lookup(mergedEnv, "BAASIX_TOKEN"),
                        Lookup(mergedEnv, "BAASIX_AUTH_TOKEN"))
    IN  IF ~Truthy(url) THEN Null
        ELSE [url |-> url, email |-> email, password |-> password, token |-> token]

\* !config && !opts.url
NoConfiguration(conf, o) == conf = Null /\ ~Truthy(Lookup(o, "url"))

\* log.error(text), log.warn(text), log.info(text)
Logged(level, text) == [level |-> level, text |-> text]

\* generate: opts.url || config?.url || "http://localhost:8056"
baasixUrl(conf, o) ==
    OrElse(OrElse(Lookup(o, "url"), IF conf = Null THEN Undefined ELSE conf.url),
           <<DefaultUrl>>)

\* generate: the configuration handed to fetchSchemas
fetchConfig(conf, o) ==
    [url |-> baasixUrl(conf, o),
     email |-> IF conf = Null THEN Undefined ELSE conf.email,
     password |-> IF conf = Null THEN Undefined ELSE conf.password,
     token |-> IF conf = Null THEN Undefined ELSE conf.token]

\* migrate: config ? { ...config, url: opts.url || config.url }
\*                 : { url: opts.url || "http://localhost:8056" }
effectiveConfig(conf, o) ==
    IF conf # Null
    THEN [conf EXCEPT !.url = OrElse(Lookup(o, "url"), conf.url)]
    ELSE [url |-> OrElse(Lookup(o, "url"), <<DefaultUrl>>),
          email |-> Undefined, password |-> Undefined, token |-> Undefined]

(***************************************************************************)
(* The entry of the two commands: configuration and server URL             *)
(***************************************************************************)
\* generateAction up to the choice of the target
GenerateEntry ==
    /\ cpc = "start"
    /\ LET conf == getConfig(dotenv, env) IN
         /\ config' = conf
         /\ IF NoConfiguration(conf, opts)
            THEN /\ messages' = Append(messages, Logged("error", "No Baasix configuration found."))
                 /\ exitCode' = <<1>>
                 /\ cpc' = "exited"
                 /\ locals' = locals
            ELSE /\ locals' = With(locals, "baasixUrl", baasixUrl(conf, opts))
                 /\ cpc' = "target"
                 /\ UNCHANGED <<messages, exitCode>>
    /\ UNCHANGED <<env, dotenv, opts, files, server, client, requests, prompts>>
    /\ UNCHANGED <<genVars, fieldVars, nameVars, runVars>>

\* migrateAction up to the choice of the action
MigrateEntry ==
    /\ cpc = "start"
    /\ LET conf == getConfig(dotenv, env) IN
         /\ config' = conf
         /\ IF NoConfiguration(conf, opts)
            THEN /\ messages' = Append(messages, Logged("error", "No Baasix configuration found."))
                 /\ exitCode' = <<1>>
                 /\ cpc' = "exited"
                 /\ locals' = locals
            ELSE /\ locals' = With(locals, "effectiveConfig", effectiveConfig(conf, opts))
                 /\ cpc' = "action"
                 /\ UNCHANGED <<messages, exitCode>>
    /\ UNCHANGED <<env, dotenv, opts, files, server, client, requests, prompts>>
    /\ UNCHANGED <<genVars, fieldVars, nameVars, runVars>>

\* The generator and the helpers are not running.
GeneratorIdle ==
    /\ schemas = <<>>
    /\ pc = "idle"
    /\ out = <<>>
    /\ field = NoField
    /\ fpc = "idle"
    /\ res = NoResult
    /\ input = <<>>
    /\ spc = "idle"
    /\ pascal = <<>>
    /\ runs = <<>>
    /\ clock = 0

(***************************************************************************)
(* Configuration loading on its own: every environment, every .env         *)
(***************************************************************************)
ConfigKeys == {"BAASIX_URL", "API_URL", "BAASIX_TOKEN"}

\* The objects over ConfigKeys: each key absent, empty or set.  A value
\* names its source and its key, so that the origin of a configured value
\* can be read.
Environments(from) ==
    UNION { { [k \in present |-> IF k \in empty THEN "" ELSE from \o ":" \o k]
              : empty \in SUBSET present }
            : present \in SUBSET ConfigKeys }

UrlFlag == "http://flag:8056"

InitConfig ==
    /\ env \in Environments("env")
    /\ dotenv \in Environments("file") \cup {Null}
    /\ opts \in {EmptyObject, [url |-> UrlFlag]}
    /\ files = EmptyObject
    /\ server = EmptyObject
    /\ config = Null
    /\ client = Null
    /\ requests = <<>>
    /\ prompts = <<>>
    /\ messages = <<>>
    /\ locals = EmptyObject
    /\ cpc = "start"
    /\ exitCode = <<>>
    /\ GeneratorIdle

NextConfig == GenerateEntry \/ MigrateEntry

SpecConfig == InitConfig /\ [][NextConfig]_vars

(***************************************************************************)
(* C30                                                                     *)
(***************************************************************************)
\* The value of the key k: that of process.env when process.env has the
\* key, else that of the .env file.
C30_KeyValue(k) ==
    IF Has(env, k) THEN <<env[k]>>
    ELSE IF dotenv # Null /\ Has(dotenv, k) THEN <<dotenv[k]>>
    ELSE Undefined

C30_NonEmpty(v) == v # Undefined /\ v[1] # ""

\* BAASIX_URL, else API_URL, else http://localhost:8056
C30_Url ==
    IF C30_NonEmpty(C30_KeyValue("BAASIX_URL")) THEN C30_KeyValue("BAASIX_URL")[1]
    ELSE IF C30_NonEmpty(C30_KeyValue("API_URL")) THEN C30_KeyValue("API_URL")[1]
    ELSE "http://localhost:8056"

C30_Entered == cpc \in {"target", "action", "exited"}

\* The URL the command goes on with
C30_Target ==
    IF cpc = "target" THEN locals.baasixUrl
    ELSE IF cpc = "action" THEN locals.effectiveConfig.url
    ELSE Undefined

\* C30: getConfig never returns null: whatever the .env file and the process
\* environment hold, it returns a configuration whose url is not empty
\* (BAASIX_URL, else API_URL, else http://localhost:8056, each key read from
\* the process environment before the .env file); generate and migrate never
\* take their "No Baasix configuration found" exit, and a run without any
\* configured URL and without --url goes on against http://localhost:8056.
C30_GetConfigNeverNull ==
    C30_Entered =>
        /\ config # Null
        /\ config.url = <<C30_Url>>
        /\ C30_Url # ""
        /\ cpc # "exited"
        /\ exitCode = <<>>
        /\ messages = <<>>
        /\ (~Has(opts, "url") => C30_Target = <<C30_Url>>)

\* A run with nothing configured and no --url goes on against the default;
\* an empty BAASIX_URL of the process environment hides the one of .env.
C30_Witness ==
    /\ C30_Entered
    /\ env = EmptyObject /\ dotenv = Null /\ opts = EmptyObject
    /\ C30_Target = <<"http://localhost:8056">>

C30_WitnessEmptyHides ==
    /\ C30_Entered
    /\ Has(env, "BAASIX_URL") /\ env["BAASIX_URL"] = ""
    /\ dotenv # Null /\ Has(dotenv, "BAASIX_URL") /\ dotenv["BAASIX_URL"] # ""
    /\ ~Has(env, "API_URL") /\ ~Has(dotenv, "API_URL")
    /\ config.url = <<"http://localhost:8056">>

(***************************************************************************)
(* api-client.ts: the shared client                                        *)
(*                                                                         *)
(* A request is recorded with the presence of the Authorization header on  *)
(* the client that sent it and with the response the server gave: status   *)
(* 200 with data, or an error status (0 when no response came at all), for *)
(* which axios throws.                                                     *)
(***************************************************************************)
Request(method, path, authorized, body, response) ==
    [method |-> method, path |-> path, Authorization |-> authorized,
     body |-> body, response |-> response]

Failed(response) == response.status # 200

\* createApiClient(config) with the module-level client c: the client the
\* module holds afterwards, the requests sent, and whether the call threw.
\* The client is assigned before the login, so it stays when the login fails.
createApiClient(c, conf, loginResponse) ==
    IF c # Null THEN [client |-> c, sent |-> <<>>, threw |-> FALSE]
    ELSE IF Truthy(conf.token)
    THEN [client |-> [Authorization |-> TRUE], sent |-> <<>>, threw |-> FALSE]
    ELSE IF Truthy(conf.email) /\ Truthy(conf.password)
    THEN [client |-> [Authorization |-> ~Failed(loginResponse)],
          sent |-> << Request("POST", "/auth/login", FALSE,
                              [email |-> conf.email, password |-> conf.password],
                              loginResponse) >>,
          threw |-> Failed(loginResponse)]
    ELSE [client |-> [Authorization |-> FALSE], sent |-> <<>>, threw |-> FALSE]

\* const client = await createApiClient(config);
\* const response = await client.<method>(path, body);
\* the client afterwards, the requests sent, whether the call threw, and the
\* response when it did not throw before the request.
apiCall(c, conf, loginResponse, method, path, body, response) ==
    LET made == createApiClient(c, conf, loginResponse) IN
        IF made.threw
        THEN [client |-> made.client, sent |-> made.sent, threw |-> TRUE,
              error |-> loginResponse]
        ELSE [client |-> made.client,
              sent |-> Append(made.sent,
                         Request(method, path, made.client.Authorization, body, response)),
              threw |-> Failed(response),
              error |-> response]

Ok(data) == [status |-> 200, data |-> data]

\* What the server or the network may answer instead: unauthorized,
\* forbidden, a server error, no response.
Errors == { [status |-> n] : n \in {401, 403, 500, 0} }

LoginResponses == { Ok([token |-> "jwt"]) } \cup Errors

\* Exit with code 0 whatever the code asked for.
Exit_AlwaysZero(code, logged) ==
    /\ cpc' = "exited"
    /\ exitCode' = <<0>>
    /\ messages' = messages \o logged

\* process.exit(code) after the given log lines; a handler that returns ends
\* the process with code 0.
Exit(code, logged) ==
    /\ cpc' = "exited"
    /\ exitCode' = <<code>>
    /\ messages' = messages \o logged

\* A prompt of @clack/prompts: its kind and the answer, <<>> when cancelled.
Cancelled == <<>>

Prompted(kind, answer) == [kind |-> kind, answer |-> answer]

(***************************************************************************)
(* The generate command                                                    *)
(***************************************************************************)
Targets == {"types", "sdk-types", "schema-json"}

\* The output of the run: the text generated for the target from the
\* schemas fetched.
Output(target, data) == [target |-> target, schemas |-> data]

\* What a file holds that a failed write left behind
Truncated == [target |-> "", schemas |-> <<>>]

\* What the output path held before the run, when it existed
Previous == [target |-> "types", schemas |-> << "previous" >>]

\* fs.writeFile resolves ("written"), or rejects with the file as it was
\* ("refused": the path cannot be opened), or rejects after the file was
\* opened and truncated ("interrupted").
WriteOutcomes == {"written", "refused", "interrupted"}

\* target = opts.target, or the answer of the select prompt
SelectTarget ==
    /\ cpc = "target"
    /\ IF Truthy(Lookup(opts, "target"))
       THEN /\ locals' = With(locals, "target", opts.target)
            /\ cpc' = "output"
            /\ UNCHANGED <<prompts, exitCode, messages>>
       ELSE \E answer \in { <<t>> : t \in Targets } \cup {Cancelled} :
            /\ prompts' = Append(prompts, Prompted("select", answer))
            /\ IF answer = Cancelled
               THEN Exit(0, <<>>) /\ locals' = locals
               ELSE /\ locals' = With(locals, "target", answer[1])
                    /\ cpc' = "output"
                    /\ UNCHANGED <<exitCode, messages>>
    /\ UNCHANGED <<env, dotenv, opts, files, server, config, client, requests>>
    /\ UNCHANGED <<genVars, fieldVars, nameVars, runVars>>

\* outputPath = opts.output, or the answer of the text prompt
AskOutputPath ==
    /\ cpc = "output"
    /\ IF Truthy(Lookup(opts, "output"))
       THEN /\ locals' = With(locals, "outputPath", opts.output)
            /\ cpc' = "fetch"
            /\ UNCHANGED <<prompts, exitCode, messages>>
       ELSE LET defaultPath == IF locals.target = "schema-json"
                               THEN "schemas.json" ELSE "baasix.d.ts"
            IN  \E answer \in { <<defaultPath>>, Cancelled } :
                /\ prompts' = Append(prompts, Prompted("text", answer))
                /\ IF answer = Cancelled
                   THEN Exit(0, <<>>) /\ locals' = locals
                   ELSE /\ locals' = With(locals, "outputPath", answer[1])
                        /\ cpc' = "fetch"
                        /\ UNCHANGED <<exitCode, messages>>
    /\ UNCHANGED <<env, dotenv, opts, files, server, config, client, requests>>
    /\ UNCHANGED <<genVars, fieldVars, nameVars, runVars>>

\* The log lines of the catch block of generateAction for a thrown error
GenerateFailure(error) ==
    IF error.status = 403 THEN << Logged("error", "Schema access denied (403 Forbidden)") >>
    ELSE IF error.status = 401
    THEN << Logged("error", "Authentication required (401 Unauthorized)") >>
    ELSE << Logged("error", "error.message") >>

\* schemas = await fetchSchemas(...), the zero-schema exit, the generation
FetchSchemas ==
    /\ cpc = "fetch"
    /\ \E loginResponse \in LoginResponses :
       \E response \in { Ok(server.schemas) } \cup Errors :
         LET call == apiCall(client, fetchConfig(config, opts), loginResponse,
                             "GET", "/schemas", EmptyObject, response)
         IN  /\ client' = call.client
             /\ requests' = requests \o call.sent
             /\ IF call.threw
                THEN Exit(1, GenerateFailure(call.error)) /\ locals' = locals
                ELSE IF response.data = <<>>
                THEN /\ Exit(0, << Logged("warn", "No schemas found in your Baasix instance.") >>)
                     /\ locals' = locals
                ELSE /\ locals' = With(locals, "output", Output(locals.target, response.data))
                     /\ cpc' = "overwrite"
                     /\ UNCHANGED <<exitCode, messages>>
    /\ UNCHANGED <<env, dotenv, opts, files, server, config, prompts>>
    /\ UNCHANGED <<genVars, fieldVars, nameVars, runVars>>

\* The overwrite check that never asks.
ConfirmOverwrite_NeverAsks ==
    /\ cpc = "overwrite"
    /\ cpc' = "write"
    /\ UNCHANGED <<env, dotenv, opts, files, server, config, client, requests,
                   prompts, messages, locals, exitCode>>
    /\ UNCHANGED <<genVars, fieldVars, nameVars, runVars>>

\* existsSync(fullOutputPath) && !opts.yes: the overwrite confirmation
ConfirmOverwrite ==
    /\ cpc = "overwrite"
    /\ IF files.file # Undefined /\ ~TruthyFlag(opts, "yes")
       THEN \E overwrite \in { <<TRUE>>, <<FALSE>>, Cancelled } :
            /\ prompts' = Append(prompts, Prompted("confirm", overwrite))
            /\ IF overwrite = Cancelled \/ overwrite = <<FALSE>>
               THEN Exit(0, <<>>)
               ELSE cpc' = "write" /\ UNCHANGED <<exitCode, messages>>
       ELSE cpc' = "write" /\ UNCHANGED <<prompts, exitCode, messages>>
    /\ UNCHANGED <<env, dotenv, opts, files, server, config, client, requests, locals>>
    /\ UNCHANGED <<genVars, fieldVars, nameVars, runVars>>

\* mkdir of the output directory when it is missing, then writeFile
WriteOutput ==
    /\ cpc = "write"
    /\ \E mkdirFails \in BOOLEAN : \E outcome \in WriteOutcomes :
         IF ~files.dir /\ mkdirFails
         THEN Exit(1, << Logged("error", "error.message") >>) /\ files' = files
         ELSE /\ files' = [dir |-> TRUE,
                           file |-> IF outcome = "written" THEN <<locals.output>>
                                    ELSE IF outcome = "interrupted" THEN <<Truncated>>
                                    ELSE files.file]
              /\ IF outcome = "written" THEN Exit(0, <<>>)
                 ELSE Exit(1, << Logged("error", "error.message") >>)
    /\ UNCHANGED <<env, dotenv, opts, server, config, client, requests, prompts, locals>>
    /\ UNCHANGED <<genVars, fieldVars, nameVars, runVars>>

\* The configurations the commands run under: none, a token, credentials
Credentials ==
    { EmptyObject,
      [BAASIX_TOKEN |-> "token"],
      [BAASIX_EMAIL |-> "admin@example.com", BAASIX_PASSWORD |-> "secret"] }

\* The command lines of generate: each option given or not
GenerateOptions ==
    { [k \in given |-> IF k = "target" THEN t
                       ELSE IF k = "output" THEN "src/types/baasix.d.ts"
                       ELSE IF k = "url" THEN UrlFlag
                       ELSE TRUE]
      : <<given, t>> \in (SUBSET {"target", "output", "url", "yes"}) \X Targets }

InitGenerate ==
    /\ env \in Credentials
    /\ dotenv = Null
    /\ opts \in GenerateOptions
    /\ files \in { [dir |-> FALSE, file |-> Undefined],
                   [dir |-> TRUE, file |-> Undefined],
                   [dir |-> TRUE, file |-> <<Previous>>] }
    /\ server \in { [schemas |-> <<>>], [schemas |-> << "orders", "baasix_User" >>] }
    /\ config = Null
    /\ client = Null
    /\ requests = <<>>
    /\ prompts = <<>>
    /\ messages = <<>>
    /\ locals = EmptyObject
    /\ cpc = "start"
    /\ exitCode = <<>>
    /\ GeneratorIdle

NextGenerate ==
    \/ GenerateEntry
    \/ SelectTarget
    \/ AskOutputPath
    \/ FetchSchemas
    \/ ConfirmOverwrite
    \/ WriteOutput

SpecGenerate == InitGenerate /\ [][NextGenerate]_vars

(***************************************************************************)
(* C21                                                                     *)
(***************************************************************************)
Last(seq) == seq[Len(seq)]

\* The step that ends the run
C21_Ends == exitCode = <<>> /\ exitCode' # <<>>

\* ... with the output file written,
C21_Wrote == cpc = "write" /\ files'.file = <<locals.output>>

\* ... with a failed write (or a failed mkdir before it),
C21_WriteFailed == cpc = "write" /\ files'.file # <<locals.output>>

\* ... with a failed schema fetch or a failed login,
C21_FetchFailed == cpc = "fetch" /\ Failed(Last(requests').response)

\* ... with zero schemas returned
C21_NoSchemas ==
    /\ cpc = "fetch"
    /\ ~Failed(Last(requests').response)
    /\ Last(requests').response.data = <<>>

C21_OriginalStep ==
    C21_Ends =>
        /\ C21_Wrote => exitCode' = <<0>>
        /\ (C21_FetchFailed \/ C21_WriteFailed) =>
               exitCode' = <<1>> /\ files'.file = files.file
        /\ C21_NoSchemas =>
               /\ exitCode' = <<0>>
               /\ messages' # messages
               /\ files'.file = files.file

\* The claim as it is worded: a failed write leaves the output file as it was.
C21_Original_FailedWriteLeavesFile == [][C21_OriginalStep]_vars

C21_Step ==
    C21_Ends =>
        /\ C21_Wrote => exitCode' = <<0>>
        /\ C21_FetchFailed => exitCode' = <<1>> /\ files' = files
        /\ C21_WriteFailed =>
               /\ exitCode' = <<1>>
               /\ files'.file \in {files.file, <<Truncated>>}
        /\ C21_NoSchemas =>
               /\ exitCode' = <<0>>
               /\ Last(messages').level = "warn"
               /\ files' = files

\* C21: generate ends with exit code 0 when the output file was written,
\* with exit code 1 on a failure of the schema fetch, of the login or of the
\* file write, and with exit code 0 and a warning when the server returns
\* zero schemas.  After a failed fetch or login and with zero schemas the
\* output file is neither created nor modified; a failed write leaves the
\* file as it was or truncated, never with the generated text.
C21_ExitCodesAndFile == [][C21_Step]_vars

\* A run that ended with exit code 1 on a write that left the previous file
\* truncated.
C21_Witness ==
    /\ cpc = "exited"
    /\ exitCode = <<1>>
    /\ Has(locals, "output")
    /\ files.file = <<Truncated>>
    /\ requests # <<>>
    /\ Last(requests).path = "/schemas"

\* Runs that ended on zero schemas and on a failed login, the file untouched.
C21_WitnessNoSchemas ==
    /\ cpc = "exited"
    /\ exitCode = <<0>>
    /\ requests # <<>>
    /\ ~Failed(Last(requests).response)
    /\ Last(requests).response.data = <<>>
    /\ files.file = <<Previous>>

C21_WitnessLoginFailed ==
    /\ cpc = "exited"
    /\ exitCode = <<1>>
    /\ requests # <<>>
    /\ Last(requests).path = "/auth/login"
    /\ files.file = <<Previous>>

(***************************************************************************)
(* C22                                                                     *)
(***************************************************************************)
C22_Confirmed(ps) == ps # <<>> /\ Last(ps) = Prompted("confirm", <<TRUE>>)

C22_Declined(ps) ==
    ps # <<>> /\ Last(ps).kind = "confirm" /\ Last(ps).answer # <<TRUE>>

C22_Step ==
    /\ (files.file # Undefined /\ files'.file # files.file) =>
           TruthyFlag(opts, "yes") \/ C22_Confirmed(prompts)
    /\ C22_Declined(prompts') =>
           /\ exitCode' = <<0>>
           /\ cpc' = "exited"
           /\ files' = files
           /\ files.file = <<Previous>>

\* C22: generate writes to an output path that exists only when --yes was
\* given or the last prompt was the overwrite confirmation, answered yes; a
\* confirmation that is declined or cancelled ends the run with exit code 0
\* and the existing file as it was.
C22_OverwriteOnlyWhenAllowed == [][C22_Step]_vars

\* An existing file replaced after the confirmation was answered yes, and
\* one kept after it was declined.
C22_Witness ==
    /\ cpc = "exited"
    /\ ~TruthyFlag(opts, "yes")
    /\ C22_Confirmed(prompts)
    /\ Has(locals, "output")
    /\ files.file = <<locals.output>>

C22_WitnessDeclined ==
    /\ cpc = "exited"
    /\ C22_Declined(prompts)
    /\ exitCode = <<0>>
    /\ files.file = <<Previous>>

(***************************************************************************)
(* C23                                                                     *)
(***************************************************************************)
\* The command line of the CI step of the README:
\* generate --url <url> -o <path> -y
C23_CIStep ==
    /\ Has(opts, "url") /\ Has(opts, "output") /\ TruthyFlag(opts, "yes")
    /\ ~Has(opts, "target")

\* C23: invoked as in the documented CI step (--url, --output and --yes, no
\* --target), generate issues no interactive prompt from its start to the
\* file write or the error exit.
C23_Original_CIStepNeverPrompts == C23_CIStep => prompts = <<>>

\* The CI step asked for the target.
C23_Witness ==
    /\ C23_CIStep
    /\ cpc = "output"
    /\ prompts # <<>>
    /\ prompts[1].kind = "select"

\* With --target added to the command line of the CI step, no prompt.
C23_WithTargetNoPrompt ==
    (Has(opts, "url") /\ Has(opts, "output") /\ TruthyFlag(opts, "yes")
        /\ Has(opts, "target")) => prompts = <<>>

(***************************************************************************)
(* The migrate command                                                     *)
(*                                                                         *)
(* A file of the migrations directory is its name without the extension    *)
(* and its extension; the name of a migration is the two joined.  The      *)
(* value of --steps is what parseInt made of it: a number or NaN.  The     *)
(* create action sends no request and is not modelled.                     *)
(***************************************************************************)
MigrateActions == {"status", "list", "run", "rollback", "reset"}

NaN == [nan |-> TRUE, value |-> 0]

Num(n) == [nan |-> FALSE, value |-> n]

\* opts.steps || 1
rollbackSteps(o) ==
    IF Has(o, "steps") /\ ~o.steps.nan /\ o.steps.value # 0 THEN o.steps.value ELSE 1

\* getExecutedMigrations without its catch.
getExecutedMigrations_NoCatch(c, conf, loginResponse, response) ==
    LET call == apiCall(c, conf, loginResponse, "GET", "/migrations", EmptyObject, response)
    IN  [client |-> call.client, sent |-> call.sent, threw |-> call.threw,
         data |-> IF call.threw THEN <<>> ELSE response.data]

\* getExecutedMigrations(config): fetchMigrations, [] when it throws
getExecutedMigrations(c, conf, loginResponse, response) ==
    LET call == apiCall(c, conf, loginResponse, "GET", "/migrations", EmptyObject, response)
    IN  [client |-> call.client, sent |-> call.sent, threw |-> FALSE,
         data |-> IF call.threw THEN <<>> ELSE response.data]

FileName(f) == f.stem \o f.ext

\* The files a migrations directory may hold, in the order of sort()
FileOrder ==
    << [stem |-> "001_users", ext |-> ".js"],
       [stem |-> "002_orders", ext |-> ".ts"],
       [stem |-> "README", ext |-> ".md"] >>

\* getLocalMigrations(cwd): fs.migrations is the set of the files of
\* migrations/, absent when there is no such directory.
getLocalMigrations(fs) ==
    IF ~Has(fs, "migrations") THEN <<>>
    ELSE LET kept == SelectSeq(FileOrder,
                        LAMBDA f : f \in fs.migrations
                                   /\ (f.ext = ".js" \/ f.ext = ".ts"))
         IN  [i \in DOMAIN kept |-> FileName(kept[i])]

\* The pending migrations when nothing counts as executed.
pendingMigrations_AllLocal(localMigrations, executedMigrations) == localMigrations

\* localMigrations.filter((m) => !executedNames.has(m))
pendingMigrations(localMigrations, executedMigrations) ==
    LET executedNames == { executedMigrations[i].name : i \in DOMAIN executedMigrations }
    IN  SelectSeq(localMigrations, LAMBDA m : m \notin executedNames)

\* migration.batch || 0
batchOf(m) == IF Has(m, "batch") THEN m.batch ELSE 0

\* [...executedMigrations].sort((a, b) => (b.batch || 0) - (a.batch || 0)):
\* a stable sort, by insertion from the left
RECURSIVE sortedByBatch(_)
sortedByBatch(ms) ==
    IF ms = <<>> THEN <<>>
    ELSE LET rest == sortedByBatch(SubSeq(ms, 1, Len(ms) - 1))
             m == ms[Len(ms)]
             before == SelectSeq(rest, LAMBDA x : batchOf(x) >= batchOf(m))
             after == SelectSeq(rest, LAMBDA x : batchOf(x) < batchOf(m))
         IN  before \o <<m>> \o after

\* The loop over sortedByBatch from position i on, with batchesToRollback
\* and migrationsToRollback as they stand
RECURSIVE collectRollback(_, _, _, _, _)
collectRollback(sorted, i, steps, batches, migrations) ==
    IF i > Len(sorted) THEN migrations
    ELSE LET batch == batchOf(sorted[i])
             added == IF Cardinality(batches) < steps THEN batches \cup {batch}
                      ELSE batches
         IN  collectRollback(sorted, i + 1, steps, added,
                 IF batch \in added THEN Append(migrations, sorted[i]) ELSE migrations)

\* The migrations rollback lists when it takes the last batch only.
migrationsToRollback_LastBatch(executedMigrations, steps) ==
    collectRollback(sortedByBatch(executedMigrations), 1, 1, {}, <<>>)

migrationsToRollback(executedMigrations, steps) ==
    collectRollback(sortedByBatch(executedMigrations), 1, steps, {}, <<>>)

\* Math.max(...executedMigrations.map((m) => m.batch || 0))
maxBatch(executedMigrations) ==
    LET batches == { batchOf(executedMigrations[i]) : i \in DOMAIN executedMigrations }
    IN  CHOOSE b \in batches : \A c \in batches : c <= b

\* The confirmation that lets everything through.
Proceeds_Always(skipConfirm, answer) == TRUE

\* if (!skipConfirm) { confirmed = await confirm(...);
\*                     if (isCancel(confirmed) || !confirmed) process.exit(0) }
Proceeds(skipConfirm, answer) == skipConfirm \/ answer = <<TRUE>>

\* What the server answers to a run or rollback request
Results ==
    { Ok([success |-> TRUE, message |-> "done"]),
      Ok([success |-> FALSE, message |-> "failed"]) } \cup Errors

Answers == { <<TRUE>>, <<FALSE>>, Cancelled }

\* The catch of migrateAction
MigrationFailed == Exit(1, << Logged("error", "error.message") >>)

\* selectedAction = action || opts.action, or the answer of the select prompt
SelectAction ==
    /\ cpc = "action"
    /\ IF Truthy(Lookup(opts, "action"))
       THEN /\ locals' = With(locals, "selectedAction", opts.action)
            /\ cpc' = "selected"
            /\ UNCHANGED <<prompts, exitCode, messages>>
       ELSE \E answer \in { <<a>> : a \in MigrateActions } \cup {Cancelled} :
            /\ prompts' = Append(prompts, Prompted("select", answer))
            /\ IF answer = Cancelled
               THEN Exit(0, <<>>) /\ locals' = locals
               ELSE /\ locals' = With(locals, "selectedAction", answer[1])
                    /\ cpc' = "selected"
                    /\ UNCHANGED <<exitCode, messages>>
    /\ UNCHANGED <<env, dotenv, opts, files, server, config, client, requests>>
    /\ UNCHANGED <<genVars, fieldVars, nameVars, runVars>>

\* The handlers of status and list: what they fetch and what they print
Report(kind) ==
    /\ cpc = "selected"
    /\ locals.selectedAction = kind
    /\ \E loginResponse \in LoginResponses :
       \E response \in { Ok(server.migrations) } \cup Errors :
         LET fetched == getExecutedMigrations(client, locals.effectiveConfig,
                                              loginResponse, response)
             localMigrations == getLocalMigrations(files)
             pending == pendingMigrations(localMigrations, fetched.data)
         IN  /\ client' = fetched.client
             /\ requests' = requests \o fetched.sent
             /\ locals' = With(With(locals, "executedMigrations", fetched.data),
                              "localMigrations", localMigrations)
             /\ IF fetched.threw THEN MigrationFailed
                ELSE Exit(0, << Logged(kind, [local |-> localMigrations,
                                              executed |-> Len(fetched.data),
                                              pending |-> pending]) >>)
    /\ UNCHANGED <<env, dotenv, opts, files, server, config, prompts>>
    /\ UNCHANGED <<genVars, fieldVars, nameVars, runVars>>

\* showStatus
ShowStatus == Report("status")

\* listMigrations
ListMigrations == Report("list")

\* A handler past its fetch: the listing toList, the prompts issued, and,
\* when they let the handler proceed, the one request and its result
ConfirmAndSend(fetched, toList, prompted, proceeds, path, body) ==
    \E loginAgain \in LoginResponses : \E result \in Results :
        IF ~proceeds
        THEN /\ client' = fetched.client
             /\ requests' = requests \o fetched.sent
             /\ prompts' = prompts \o prompted
             /\ Exit(0, toList)
        ELSE LET call == apiCall(fetched.client, locals.effectiveConfig, loginAgain,
                                 "POST", path, body, result)
             IN  /\ client' = call.client
                 /\ requests' = requests \o fetched.sent \o call.sent
                 /\ prompts' = prompts \o prompted
                 /\ IF call.threw
                    THEN Exit(1, toList \o << Logged("error", "error.message") >>)
                    ELSE IF result.data.success
                    THEN Exit(0, toList)
                    ELSE Exit(1, toList \o << Logged("error", result.data.message) >>)

\* runMigrations
RunMigrations ==
    /\ cpc = "selected"
    /\ locals.selectedAction = "run"
    /\ \E loginResponse \in LoginResponses :
       \E response \in { Ok(server.migrations) } \cup Errors :
       \E confirmed \in Answers :
         LET fetched == getExecutedMigrations(client, locals.effectiveConfig,
                                              loginResponse, response)
             localMigrations == getLocalMigrations(files)
             pending == pendingMigrations(localMigrations, fetched.data)
             skipConfirm == TruthyFlag(opts, "yes")
         IN  /\ locals' = With(With(locals, "executedMigrations", fetched.data),
                              "pendingMigrations", pending)
             /\ IF fetched.threw
                THEN /\ client' = fetched.client
                     /\ requests' = requests \o fetched.sent
                     /\ prompts' = prompts
                     /\ MigrationFailed
                ELSE IF pending = <<>>
                THEN /\ client' = fetched.client
                     /\ requests' = requests \o fetched.sent
                     /\ prompts' = prompts
                     /\ Exit(0, << Logged("info",
                                     "All migrations have already been executed.") >>)
                ELSE ConfirmAndSend(fetched, << Logged("run", pending) >>,
                        IF skipConfirm THEN <<>> ELSE << Prompted("confirm", confirmed) >>,
                        Proceeds(skipConfirm, confirmed),
                        "/migrations/run", [step |-> Len(pending)])
    /\ UNCHANGED <<env, dotenv, opts, files, server, config>>
    /\ UNCHANGED <<genVars, fieldVars, nameVars, runVars>>

\* rollbackMigrations, called with opts.steps || 1
RollbackMigrations ==
    /\ cpc = "selected"
    /\ locals.selectedAction = "rollback"
    /\ \E loginResponse \in LoginResponses :
       \E response \in { Ok(server.migrations) } \cup Errors :
       \E confirmed \in Answers :
         LET fetched == getExecutedMigrations(client, locals.effectiveConfig,
                                              loginResponse, response)
             steps == rollbackSteps(opts)
             toRollback == migrationsToRollback(fetched.data, steps)
             skipConfirm == TruthyFlag(opts, "yes")
         IN  /\ locals' = With(locals, "executedMigrations", fetched.data)
             /\ IF fetched.threw
                THEN /\ client' = fetched.client
                     /\ requests' = requests \o fetched.sent
                     /\ prompts' = prompts
                     /\ MigrationFailed
                ELSE IF fetched.data = <<>>
                THEN /\ client' = fetched.client
                     /\ requests' = requests \o fetched.sent
                     /\ prompts' = prompts
                     /\ Exit(0, << Logged("info", "No migrations have been executed.") >>)
                ELSE ConfirmAndSend(fetched, << Logged("rollback", toRollback) >>,
                        IF skipConfirm THEN <<>> ELSE << Prompted("confirm", confirmed) >>,
                        Proceeds(skipConfirm, confirmed),
                        "/migrations/rollback", [step |-> steps])
    /\ UNCHANGED <<env, dotenv, opts, files, server, config>>
    /\ UNCHANGED <<genVars, fieldVars, nameVars, runVars>>

\* resetMigrations: the text prompt accepts "reset" only, or is cancelled
ResetMigrations ==
    /\ cpc = "selected"
    /\ locals.selectedAction = "reset"
    /\ \E loginResponse \in LoginResponses :
       \E response \in { Ok(server.migrations) } \cup Errors :
       \E confirmed \in Answers : \E typed \in { <<"reset">>, Cancelled } :
         LET fetched == getExecutedMigrations(client, locals.effectiveConfig,
                                              loginResponse, response)
             skipConfirm == TruthyFlag(opts, "yes")
             first == Proceeds(skipConfirm, confirmed)
         IN  /\ locals' = With(locals, "executedMigrations", fetched.data)
             /\ IF fetched.threw
                THEN /\ client' = fetched.client
                     /\ requests' = requests \o fetched.sent
                     /\ prompts' = prompts
                     /\ MigrationFailed
                ELSE IF fetched.data = <<>>
                THEN /\ client' = fetched.client
                     /\ requests' = requests \o fetched.sent
                     /\ prompts' = prompts
                     /\ Exit(0, << Logged("info", "No migrations have been executed.") >>)
                ELSE ConfirmAndSend(fetched,
                        << Logged("warn", "This will rollback ALL migrations!") >>,
                        IF skipConfirm THEN <<>>
                        ELSE IF first
                        THEN << Prompted("confirm", confirmed), Prompted("text", typed) >>
                        ELSE << Prompted("confirm", confirmed) >>,
                        first /\ (skipConfirm \/ typed # Cancelled),
                        "/migrations/rollback", [step |-> maxBatch(fetched.data)])
    /\ UNCHANGED <<env, dotenv, opts, files, server, config>>
    /\ UNCHANGED <<genVars, fieldVars, nameVars, runVars>>

(***************************************************************************)
(* The runs of migrate                                                     *)
(***************************************************************************)
MaxExecuted == 3

\* What the server reports as executed, for status, list and run: any of
\* the two local migrations and one that is not on disk
ExecutedNames ==
    LET names == << "000_init.js", FileName(FileOrder[1]), FileName(FileOrder[2]) >>
    IN  { [i \in DOMAIN kept |-> [name |-> kept[i], batch |-> 1]]
          : kept \in { SelectSeq(names, LAMBDA n : n \in reported)
                       : reported \in SUBSET Range(names) } }

\* ... and for rollback and reset: up to MaxExecuted migrations, each with
\* a batch of 1 to 3 or without
ExecutedLists ==
    UNION { { [i \in 1..n |-> With(bs[i], "name", "m" \o NatToStr(i))]
              : bs \in [1..n -> { EmptyObject } \cup { [batch |-> b] : b \in 1..3 }] }
            : n \in 0..MaxExecuted }

\* The command lines of migrate and what they run on: status, list, run and
\* no action over the directories and ExecutedNames; rollback (with every
\* value of --steps) and reset over ExecutedLists; each with and without
\* --yes.
MigrateInputs ==
    { [opts |-> Spread(o, y), files |-> dir, server |-> [migrations |-> ms]]
      : <<o, y, dir, ms>> \in
          ({ EmptyObject } \cup { [action |-> a] : a \in {"status", "list", "run"} })
          \X { EmptyObject, [yes |-> TRUE] }
          \X ({ EmptyObject } \cup { [migrations |-> d] : d \in SUBSET Range(FileOrder) })
          \X ExecutedNames }
    \cup
    { [opts |-> Spread(o, y), files |-> EmptyObject,
       server |-> [migrations |-> ms]]
      : <<o, y, ms>> \in
          ({ [action |-> "reset"], [action |-> "rollback"] }
             \cup { [action |-> "rollback", steps |-> n]
                    : n \in { NaN } \cup { Num(k) : k \in -1..3 } })
          \X { EmptyObject, [yes |-> TRUE] }
          \X ExecutedLists }

InitMigrate ==
    /\ env \in Credentials
    /\ dotenv = Null
    /\ \E i \in MigrateInputs :
          /\ opts = i.opts
          /\ files = i.files
          /\ server = i.server
    /\ config = Null
    /\ client = Null
    /\ requests = <<>>
    /\ prompts = <<>>
    /\ messages = <<>>
    /\ locals = EmptyObject
    /\ cpc = "start"
    /\ exitCode = <<>>
    /\ GeneratorIdle

NextMigrate ==
    \/ MigrateEntry
    \/ SelectAction
    \/ ShowStatus
    \/ ListMigrations
    \/ RunMigrations
    \/ RollbackMigrations
    \/ ResetMigrations

SpecMigrate == InitMigrate /\ [][NextMigrate]_vars

(***************************************************************************)
(* Reading a run of migrate                                                *)
(***************************************************************************)
\* The handler of the given action has run to its end.
Handled(action) ==
    /\ cpc = "exited"
    /\ Has(locals, "selectedAction")
    /\ locals.selectedAction = action
    /\ Has(locals, "executedMigrations")

RequestsTo(path) == SelectSeq(requests, LAMBDA r : r.path = path)

\* The names the server reported as executed (none when the fetch failed)
ReportedNames ==
    { m.name : m \in UNION { Range(r.response.data)
                             : r \in { q \in Range(RequestsTo("/migrations"))
                                       : ~Failed(q.response) } } }

\* The .js and .ts files of migrations/, sorted by name
LocalNames ==
    LET kept == SelectSeq(FileOrder,
                    LAMBDA f : /\ Has(files, "migrations")
                               /\ f \in files.migrations
                               /\ f.ext \in {".js", ".ts"})
    IN  [i \in DOMAIN kept |-> kept[i].stem \o kept[i].ext]

SkipConfirm == Has(opts, "yes") /\ opts.yes = TRUE

Answered(kind, answer) == \E i \in DOMAIN prompts : prompts[i] = Prompted(kind, answer)

\* A confirmation was declined or cancelled, or the typed one cancelled.
Declined ==
    \E i \in DOMAIN prompts :
        \/ prompts[i].kind = "confirm" /\ prompts[i].answer # <<TRUE>>
        \/ prompts[i].kind = "text" /\ prompts[i].answer = <<>>

\* The fetch of the executed migrations failed: the login or the GET.
ExecutedFetchFailed ==
    \E i \in DOMAIN requests :
        /\ requests[i].path \in {"/auth/login", "/migrations"}
        /\ Failed(requests[i].response)

(***************************************************************************)
(* C24                                                                     *)
(***************************************************************************)
C24_Pending == SelectSeq(LocalNames, LAMBDA n : n \notin ReportedNames)

\* C24: migrate run takes as pending exactly the local migration files (.js
\* or .ts under migrations/, sorted by name) whose name the server did not
\* report as executed; with none pending it sends no run request and
\* returns; otherwise, after --yes or a confirmation answered yes, it sends
\* exactly one run request, whose step is the number of pending migrations,
\* and it exits with code 1 when the server reports failure.
C24_RunSendsPendingCount ==
    Handled("run") =>
        LET sent == RequestsTo("/migrations/run") IN
        /\ locals.pendingMigrations = C24_Pending
        /\ C24_Pending = <<>> => sent = <<>> /\ exitCode = <<0>>
        /\ (C24_Pending # <<>> /\ (SkipConfirm \/ Answered("confirm", <<TRUE>>))) =>
               /\ Len(sent) = 1
               /\ sent[1].method = "POST"
               /\ sent[1].body = [step |-> Len(C24_Pending)]
               /\ (~Failed(sent[1].response) /\ ~sent[1].response.data.success) =>
                      exitCode = <<1>>
        /\ (C24_Pending # <<>> /\ ~SkipConfirm /\ ~Answered("confirm", <<TRUE>>)) =>
               sent = <<>>

\* One of two local migrations is pending, the run is confirmed, the request
\* carries step 1 and the server reports failure.
C24_Witness ==
    /\ Handled("run")
    /\ Len(LocalNames) = 2
    /\ Len(C24_Pending) = 1
    /\ Answered("confirm", <<TRUE>>)
    /\ Len(RequestsTo("/migrations/run")) = 1
    /\ RequestsTo("/migrations/run")[1].body.step = 1
    /\ ~Failed(RequestsTo("/migrations/run")[1].response)
    /\ ~RequestsTo("/migrations/run")[1].response.data.success
    /\ exitCode = <<1>>

(***************************************************************************)
(* C25                                                                     *)
(***************************************************************************)
C25_Batch(m) == IF "batch" \in DOMAIN m THEN m.batch ELSE 0

C25_Batches == { C25_Batch(m) : m \in Range(locals.executedMigrations) }

\* N: 1 when --steps is absent, 0 or not a number
C25_N ==
    IF ~Has(opts, "steps") THEN 1
    ELSE IF opts.steps = NaN \/ opts.steps = Num(0) THEN 1
    ELSE opts.steps.value

\* The N largest distinct batch values
C25_Largest ==
    { b \in C25_Batches : Cardinality({ c \in C25_Batches : c > b }) < C25_N }

\* C25: migrate rollback lists exactly the executed migrations whose batch
\* is among the N largest distinct batch values (a missing batch counts as
\* 0), and its rollback request carries step = N, where N is the value of
\* --steps, and 1 when --steps is absent, 0 or not a number.
C25_RollbackListsLastBatches ==
    (Handled("rollback") /\ locals.executedMigrations # <<>>) =>
        /\ messages # <<>>
        /\ messages[1].level = "rollback"
        /\ Range(messages[1].text) =
               { m \in Range(locals.executedMigrations) : C25_Batch(m) \in C25_Largest }
        /\ Len(messages[1].text) = Cardinality(Range(messages[1].text))
        /\ \A i \in DOMAIN requests :
               requests[i].path = "/migrations/rollback" =>
                   requests[i].body = [step |-> C25_N]

\* --steps 2 over three batches (one of them missing): two of the three
\* migrations are listed and the request carries step 2.
C25_Witness ==
    /\ Handled("rollback")
    /\ Has(opts, "steps") /\ opts.steps = Num(2)
    /\ Len(locals.executedMigrations) = 3
    /\ Cardinality(C25_Batches) = 3
    /\ 0 \in C25_Batches
    /\ messages # <<>> /\ messages[1].level = "rollback"
    /\ Len(messages[1].text) = 2
    /\ RequestsTo("/migrations/rollback") # <<>>
    /\ RequestsTo("/migrations/rollback")[1].body.step = 2

\* --steps that is not a number: the last batch, step 1.
C25_WitnessNaN ==
    /\ Handled("rollback")
    /\ Has(opts, "steps") /\ opts.steps = NaN
    /\ Cardinality(C25_Batches) = 2
    /\ RequestsTo("/migrations/rollback") # <<>>
    /\ RequestsTo("/migrations/rollback")[1].body.step = 1

(***************************************************************************)
(* C26                                                                     *)
(***************************************************************************)
\* C26: migrate reset rolls back all migrations: for every non-empty list of
\* executed migrations its one rollback request carries a step count that
\* covers every executed batch: at least the number of distinct batch values
\* and at least 1.
C26_Original_ResetCoversAllBatches ==
    (Handled("reset") /\ locals.executedMigrations # <<>>) =>
        \A i \in DOMAIN requests :
            requests[i].path = "/migrations/rollback" =>
                /\ requests[i].body.step >= Cardinality(C25_Batches)
                /\ requests[i].body.step >= 1

\* The reset of one executed migration without a batch asks for step 0.
C26_Witness ==
    /\ Handled("reset")
    /\ Len(locals.executedMigrations) = 1
    /\ ~Has(locals.executedMigrations[1], "batch")
    /\ RequestsTo("/migrations/rollback") # <<>>
    /\ RequestsTo("/migrations/rollback")[1].body.step = 0

\* Batches 1 and missing: two batches, step 1.
C26_WitnessTwoBatches ==
    /\ Handled("reset")
    /\ C25_Batches = {0, 1}
    /\ RequestsTo("/migrations/rollback") # <<>>
    /\ RequestsTo("/migrations/rollback")[1].body.step = 1

\* With every batch numbered from 1 without a gap the step covers them all.
C26_NumberedBatchesCovered ==
    (Handled("reset") /\ locals.executedMigrations # <<>>
        /\ C25_Batches = 1..Cardinality(C25_Batches)) =>
        \A i \in DOMAIN requests :
            requests[i].path = "/migrations/rollback" =>
                requests[i].body.step = Cardinality(C25_Batches)

(***************************************************************************)
(* C27                                                                     *)
(***************************************************************************)
\* C27: in rollback and reset a rollback request is sent only under --yes or
\* after the confirmation was answered yes (for reset: and the typed
\* confirmation completed); after a declined or cancelled prompt the command
\* exits with code 0 and no rollback request was sent; with no executed
\* migrations no request is sent either.
C27_RollbackOnlyWhenConfirmed ==
    \A action \in {"rollback", "reset"} :
        Handled(action) =>
            LET sent == RequestsTo("/migrations/rollback") IN
            /\ sent # <<>> =>
                   \/ SkipConfirm
                   \/ /\ Answered("confirm", <<TRUE>>)
                      /\ action = "reset" => Answered("text", <<"reset">>)
            /\ Declined => exitCode = <<0>> /\ sent = <<>>
            /\ locals.executedMigrations = <<>> =>
                   sent = <<>> /\ \A i \in DOMAIN prompts : prompts[i].kind = "select"
            /\ Len(sent) <= 1

\* A reset sent after both confirmations, and one stopped by cancelling the
\* typed confirmation.
C27_Witness ==
    /\ Handled("reset")
    /\ ~SkipConfirm
    /\ Answered("confirm", <<TRUE>>)
    /\ Answered("text", <<"reset">>)
    /\ Len(RequestsTo("/migrations/rollback")) = 1

C27_WitnessCancelled ==
    /\ Handled("reset")
    /\ Answered("confirm", <<TRUE>>)
    /\ Answered("text", <<>>)
    /\ exitCode = <<0>>
    /\ RequestsTo("/migrations/rollback") = <<>>

(***************************************************************************)
(* C28                                                                     *)
(***************************************************************************)
\* Email and password are configured, a token is not.
C28_Credentials ==
    /\ config # Null
    /\ config.email # <<>> /\ config.password # <<>> /\ config.token = <<>>

C28_LoggedInBefore(i) ==
    \E j \in 1..(i - 1) :
        requests[j].path = "/auth/login" /\ ~Failed(requests[j].response)

\* C28: with email and password configured, every API request of the
\* process is sent after a successful login and carries the Authorization
\* header, and once a login failed the module holds no client without it.
C28_Original_RequestsAuthenticated ==
    C28_Credentials =>
        /\ \A i \in DOMAIN requests :
               requests[i].path # "/auth/login" =>
                   requests[i].Authorization /\ C28_LoggedInBefore(i)
        /\ client # Null => client.Authorization

\* The run request of migrate run sent without Authorization, after the
\* login failed during the fetch of the executed migrations.
C28_Witness ==
    /\ C28_Credentials
    /\ Handled("run")
    /\ Len(requests) = 2
    /\ requests[1].path = "/auth/login" /\ Failed(requests[1].response)
    /\ requests[2].path = "/migrations/run" /\ ~requests[2].Authorization

\* No request but that one kind: whenever the login succeeded, and in every
\* action other than run, the requests carry the header.
C28_UnauthenticatedOnlyAfterFailedLogin ==
    C28_Credentials =>
        \A i \in DOMAIN requests :
            (requests[i].path # "/auth/login" /\ ~requests[i].Authorization) =>
                /\ requests[i].path = "/migrations/run"
                /\ Failed(requests[1].response)

(***************************************************************************)
(* C29                                                                     *)
(***************************************************************************)
\* C29: a failed fetch of the executed migrations is taken by every migrate
\* action as an empty list, never as an error: status and list report every
\* local migration as pending and exit with code 0, run takes every local
\* migration as pending, rollback and reset report that nothing was
\* executed and end without a rollback request and without exit code 1.
C29_FetchFailureIsEmptyList ==
    ExecutedFetchFailed =>
        /\ \A action \in MigrateActions :
               Handled(action) => locals.executedMigrations = <<>>
        /\ \A action \in {"status", "list"} :
               Handled(action) =>
                   /\ exitCode = <<0>>
                   /\ Len(messages) = 1
                   /\ messages[1].text.pending = LocalNames
                   /\ messages[1].text.executed = 0
        /\ Handled("run") => locals.pendingMigrations = LocalNames
        /\ \A action \in {"rollback", "reset"} :
               Handled(action) =>
                   /\ exitCode = <<0>>
                   /\ Len(messages) = 1
                   /\ messages[1] = Logged("info", "No migrations have been executed.")
                   /\ RequestsTo("/migrations/rollback") = <<>>

\* A status whose fetch failed on the server reports both local migrations
\* as pending, and a reset whose login failed ends without a request.
C29_Witness ==
    /\ Handled("status")
    /\ ExecutedFetchFailed
    /\ server.migrations # <<>>
    /\ Len(LocalNames) = 2
    /\ messages[1].text.pending = LocalNames
    /\ exitCode = <<0>>

C29_WitnessReset ==
    /\ Handled("reset")
    /\ ExecutedFetchFailed
    /\ server.migrations # <<>>
    /\ exitCode = <<0>>

====
